---- MODULE Spec2Model ----
(***************************************************************************)
(* Model of Utilities/Thread.cpp (rpcs3): thread_ctrl's cross-thread       *)
(* interrupt delivery (interrupt / handle_interrupt / test_interrupt /     *)
(* finalize) and thread_ctrl::join.  The interrupt part follows the        *)
(* non-Windows build (#else branches): interrupt() raises SIGUSR1 on the   *)
(* target with pthread_kill and the handler runs inside signal_handler on  *)
(* the target thread, nested in whatever the target was doing.             *)
(*                                                                         *)
(* u32 words with flag bits are kept as records: m_guard is                *)
(*   level (bits 0..29), deferred (0x40000000), disabled (0x80000000).     *)
(***************************************************************************)
EXTENDS Integers, Naturals, Sequences, FiniteSets, TLC

\* ---------------------------------------------------------------- bounds
MaxGuard == 2        \* deepest guard nesting explored
MaxCalls == 2        \* interrupt() calls made in all

\* ---------------------------------------------------------------- threads
Target  == "T"                 \* the thread the thread_ctrl object controls
Callers == {"a", "b"}          \* other threads calling interrupt() on it
Threads == Callers \cup {Target}
Joiners == {"j1", "j2", "j3"}  \* threads calling join() on it
Calls   == 1..MaxCalls         \* the interrupt() calls, each with its handler
NULL    == 0                   \* nullptr in the pending-interrupt slot
NoOwner == "none"              \* std::mutex not owned

VARIABLES
    m_guard,      \* thread_ctrl::m_guard of the target
    interrupt,    \* internal::interrupt, the pending handler slot; a handler
                  \* is named by the number of the interrupt() call passing it
    mutex,        \* internal::mutex: its owner
    icv,          \* internal::icv: the threads blocked in icv.wait
    sigpending,   \* SIGUSR1 pending on the target (standard signal: one bit)
    tpc,          \* target: position of its main flow
    tret,         \* target: where test_interrupt returns to
    tunw,         \* target: std::uncaught_exception() during test_interrupt
    thandler,     \* target: local 'handler' of test_interrupt
    hpc,          \* target: position inside signal_handler ("none" = not in it)
    hhandler,     \* target: local 'handler' of handle_interrupt
    ipc,          \* position of each thread inside lock(); interrupt(); unlock()
    calls,        \* interrupt() calls made so far
    cur,          \* the number of each thread's current interrupt() call
    hist,         \* per interrupt() call: what became of its handler
    ranBy,        \* threads on whose stack a handler has been executed
    aborted,      \* the process died (relocking a std::mutex it owns)
    exception,    \* internal::exception: an error escaped the task
    m_joining,    \* thread_ctrl::m_joining, the join contention counter
    jpc,          \* position of each joining thread inside join()
    jlocal,       \* join(): the local _j of each joining thread
    jcv,          \* internal::jcv: the threads blocked in jcv.wait
    osjoins,      \* the calls of std::thread::join() made so far
    junw,         \* join(): std::uncaught_exception() as each caller saw it
    code,         \* the bytes of the instruction stream, code[1] the first
    insn,         \* the instruction the stream starts with, by its fields
    dstart,       \* position in code of the instruction decoded next
    dres,         \* the results of decode_x64_reg_op so far
    eflags,       \* EFLAGS(context), its low 12 bits
    cmpcall,      \* the arguments and the state of a set_x64_cmp_flags call
    addr,         \* handle_access_violation: the fault address (u32)
    is_writing,   \* handle_access_violation: the access was a write
    regs,         \* the general registers of the saved context
    cell,         \* the emulated memory at the fault address
    writes,       \* the writes made to emulated memory so far
    fpc,          \* position inside handle_access_violation
    flocal,       \* its locals op, reg, d_size, i_size and a_size
    ext,          \* the calls of external interfaces made so far
    handled,      \* what handle_access_violation returned
    putcall,      \* the arguments and the state of a put_x64_reg_value call
    platform,     \* the build: "win32" or "posix"
    epc,          \* position of the faulting thread around its fault
    fault,        \* the fault being delivered, as the system reports it
    g_tls_fault_count,  \* vm::g_tls_fault_count: the count and its bit 63
    s_tls_ret_pos,      \* s_tls_ret_pos (0 = no stack slot to fix)
    s_tls_ret_addr,     \* s_tls_ret_addr
    stack,        \* the stack slots written by throw_access_violation
    outcomes,     \* what became of each fault delivered so far
    rcx0,         \* RCX when the instruction of the thread first faulted
    time_limit,   \* internal::time_limit, in clock ticks
    now,          \* high_resolution_clock::now(), in clock ticks
    cond,         \* internal::cond: how the thread is blocked on it
    waitcall,     \* the argument and the state of a wait_wait call
    cpu,          \* RIP and RSP of the target thread itself (win32)
    s_tls_handler,      \* s_tls_handler (0 = none)
    intr          \* per interrupt() call: where it interrupted the target

\* the state of the interrupt mechanism
ivars == <<m_guard, interrupt, icv, sigpending, tret, tunw, thandler, hpc,
           hhandler, ipc, calls, cur, hist, ranBy>>
\* the state of join()
jvars == <<m_joining, jpc, jlocal, jcv, osjoins, junw>>
\* the state of the instruction decoder
dvars == <<code, insn, dstart, dres>>
\* the state of the flags computation
fvars == <<eflags, cmpcall>>
\* the state of handle_access_violation
hvars == <<addr, is_writing, regs, cell, writes, fpc, flocal, ext, handled>>
\* the state of a put_x64_reg_value call
pvars == <<putcall>>
\* the state of the fault entry points
evars == <<platform, epc, fault, g_tls_fault_count, s_tls_ret_pos,
           s_tls_ret_addr, stack, outcomes, rcx0>>
\* the state of a timed wait
wvars == <<time_limit, now, cond, waitcall>>
\* the state of an interrupt delivered by context rewriting
rvars == <<cpu, s_tls_handler, intr>>
\* the state of the fault handling, of a wait and of a rewritten context
xvars == <<dvars, fvars, hvars, pvars, evars, wvars, rvars>>

vars == <<m_guard, interrupt, mutex, icv, sigpending, tpc, tret, tunw,
          thandler, hpc, hhandler, ipc, calls, cur, hist, ranBy, aborted,
          exception, m_joining, jpc, jlocal, jcv, osjoins, junw, code, insn,
          dstart, dres, eflags, cmpcall, addr, is_writing, regs, cell,
          writes, fpc, flocal, ext, handled, putcall, platform, epc, fault,
          g_tls_fault_count, s_tls_ret_pos, s_tls_ret_addr, stack,
          outcomes, rcx0, time_limit, now, cond, waitcall, cpu,
          s_tls_handler, intr>>

\* ------------------------------------------------------- m_guard bit tests
\* the value 0 of m_guard
ZeroGuard == [level |-> 0, deferred |-> FALSE, disabled |-> FALSE]

\* (mutant) the top bit is never seen
guard_disabled_ignored(g) == FALSE
\* m_guard & 0x80000000
guard_disabled(g) == g.disabled

\* (mutant) m_guard tested for its top bit only, the nesting level ignored
guard_is_zero_loose(g) == ~g.disabled
\* m_guard == 0
guard_is_zero(g) == g.level = 0 /\ ~g.deferred /\ ~g.disabled
\* m_guard == 0x40000000
guard_is_deferred_only(g) == g.level = 0 /\ g.deferred /\ ~g.disabled

NoCall == [status |-> "none", atZero |-> FALSE, deferred |-> FALSE,
           ranIn |-> "none", ranLevel |-> 0, execs |-> 0]

\* the thread object after construction
ThreadInit ==
    /\ m_guard = ZeroGuard
    /\ interrupt = NULL
    /\ mutex = NoOwner
    /\ icv = {}
    /\ sigpending = FALSE
    /\ tpc = "task"
    /\ tret = "task"
    /\ tunw = FALSE
    /\ thandler = NULL
    /\ hpc = "none"
    /\ hhandler = NULL
    /\ ipc = [t \in Threads |-> "idle"]
    /\ calls = 0
    /\ cur = [t \in Threads |-> 0]
    /\ hist = [k \in Calls |-> NoCall]
    /\ ranBy = {}
    /\ aborted = FALSE
    /\ exception = FALSE
    /\ m_joining = [done |-> FALSE, n |-> 0]
    /\ jpc = [j \in Joiners |-> "idle"]
    /\ jlocal = [j \in Joiners |-> [done |-> FALSE, n |-> 0]]
    /\ jcv = {}
    /\ osjoins = <<>>
    /\ junw = [j \in Joiners |-> FALSE]

\* a call of set_x64_cmp_flags that has not been made
NoCmp == [d_size |-> 0, x |-> <<0, 0, 0, 0>>, y |-> <<0, 0, 0, 0>>,
          carry |-> FALSE, state |-> "none"]

\* the locals op, reg, d_size, i_size and a_size of
\* handle_access_violation before they are set
NoLocals == [op |-> "X64OP_NONE", reg |-> 0, size |-> 0, length |-> 0,
             a_size |-> <<0, 0, 0, 0>>]

\* a call of put_x64_reg_value that has not been made
NoPut == [reg |-> 0, d_size |-> 0, value |-> <<0, 0, 0, 0>>,
          state |-> "none"]

\* a fault that has not been raised
NoException == [code |-> "none", addr64 |-> <<0, 0, 0, 0>>,
                is_writing |-> FALSE, leaf |-> FALSE, at |-> "none"]

\* a call of wait_wait that has not been made
NoWait == [timeout |-> 0, state |-> "none", ret |-> FALSE, wakeups |-> 0,
           notified |-> <<>>]

\* the thread is not waiting on internal::cond
NoWaiting ==
    /\ time_limit = 0
    /\ now = 0
    /\ cond = "none"
    /\ waitcall = NoWait

\* no interrupt has been delivered by context rewriting
NoInterruption ==
    /\ cpu = [rip |-> 0, rsp |-> <<0, 0, 0, 0>>]
    /\ s_tls_handler = 0
    /\ intr = <<>>

\* no fault has been delivered to the thread
NoEntry ==
    /\ NoWaiting
    /\ NoInterruption
    /\ platform = "posix"
    /\ epc = "none"
    /\ fault = NoException
    /\ g_tls_fault_count = [count |-> 0, bit63 |-> FALSE]
    /\ s_tls_ret_pos = <<0, 0, 0, 0>>
    /\ s_tls_ret_addr = 0
    /\ stack = <<>>
    /\ outcomes = <<>>
    /\ rcx0 = <<0, 0, 0, 0>>

\* handle_access_violation is not running
NoHandler ==
    /\ putcall = NoPut
    /\ NoEntry
    /\ addr = <<0, 0, 0, 0>>
    /\ is_writing = FALSE
    /\ regs = [r \in 0..15 |-> <<0, 0, 0, 0>>]
    /\ cell = <<0, 0, 0, 0>>
    /\ writes = <<>>
    /\ fpc = "idle"
    /\ flocal = NoLocals
    /\ ext = <<>>
    /\ handled = "none"

\* no fault is being handled
NoFault ==
    /\ code = <<>>
    /\ insn = <<>>
    /\ dstart = 1
    /\ dres = <<>>
    /\ eflags = 0
    /\ cmpcall = NoCmp
    /\ NoHandler

Init == ThreadInit /\ NoFault

\* ======================================================================
\* std::mutex and std::condition_variable
\* ======================================================================

\* std::mutex::lock by thread t: blocks while the mutex is owned.
mutex_lock(t) == mutex = NoOwner /\ mutex' = t
\* std::mutex::unlock
mutex_unlock(t) == mutex = t /\ mutex' = NoOwner

\* condition_variable::notify_one on the waiter set ws: the waiter sets it
\* can leave; one waiter, if there is any, leaves the wait (it still has to
\* reacquire the mutex).
notify_one(ws) == IF ws = {} THEN {ws} ELSE {ws \ {w} : w \in ws}

\* ======================================================================
\* A calling thread: lock(); interrupt(handler); unlock()
\* interrupt() adopts the mutex (std::adopt_lock, line 2228), so the caller
\* holds it from before the call until after it.
\* ======================================================================

\* thread_ctrl::lock, ahead of interrupt()
lock(c) ==
    /\ ~aborted
    /\ ipc[c] = "idle"
    /\ calls < MaxCalls
    /\ mutex_lock(c)
    /\ ipc' = [ipc EXCEPT ![c] = "locked"]
    /\ calls' = calls + 1
    /\ cur' = [cur EXCEPT ![c] = calls + 1]
    /\ UNCHANGED <<m_guard, interrupt, icv, sigpending, tpc, tret, tunw,
                   thandler, hpc, hhandler, hist, ranBy, aborted,
                   exception>>
    /\ UNCHANGED jvars
    /\ UNCHANGED xvars

\* (mutant) the self-interrupt check is missing
verify_not_self_skipped(t) == TRUE
\* VERIFY(this != g_tls_this_thread)
verify_not_self(t) == t # Target

\* (mutant) the slot is overwritten whatever it holds
compare_and_swap_test_overwrites(slot, handler) ==
    [ok |-> TRUE, value |-> handler]
\* m_data->interrupt.compare_and_swap_test(nullptr, handler): whether the
\* slot held nullptr, and the slot afterwards (written only in that case).
compare_and_swap_test(slot, handler) ==
    [ok |-> slot = NULL, value |-> IF slot = NULL THEN handler ELSE slot]

\* interrupt(), lines 2203-2204: the two precondition checks.  A failed
\* VERIFY raises an error in the calling thread and the call is over.
\* The target calls interrupt() on itself from its task.
interrupt_verify(t) ==
    /\ ~aborted
    /\ IF t = Target
          THEN /\ tpc = "task" /\ hpc = "none" /\ ipc[t] = "idle"
               /\ calls < MaxCalls
               /\ calls' = calls + 1
               /\ cur' = [cur EXCEPT ![t] = calls + 1]
          ELSE /\ ipc[t] = "locked"
               /\ UNCHANGED <<calls, cur>>
    /\ IF ~verify_not_self(t)
          THEN /\ ipc' = [ipc EXCEPT ![t] = "failed"]
               /\ UNCHANGED <<interrupt, hist>>
          ELSE LET cas == compare_and_swap_test(interrupt, cur'[t]) IN
               /\ interrupt' = cas.value
               /\ IF cas.ok
                    THEN /\ ipc' = [ipc EXCEPT ![t] = "installed"]
                         /\ hist' = [hist EXCEPT ![cur'[t]] =
                                       [@ EXCEPT
                                          !.status = "pending",
                                          !.atZero = (m_guard = ZeroGuard)]]
                    ELSE /\ ipc' = [ipc EXCEPT ![t] = "failed"]
                         /\ hist' = hist
    /\ UNCHANGED <<m_guard, mutex, icv, sigpending, tpc, tret, tunw,
                   thandler, hpc, hhandler, ranBy, aborted, exception>>
    /\ UNCHANGED jvars
    /\ UNCHANGED xvars

\* (mutant) the handler is called in place, on the caller's stack, instead
\* of being left to the signalled target
interrupt_kill_inline(c) ==
    /\ ~aborted
    /\ ipc[c] = "installed"
    /\ interrupt' = NULL
    /\ hist' = [hist EXCEPT ![cur[c]].status = "ran",
                            ![cur[c]].ranIn = "interrupt",
                            ![cur[c]].execs = @ + 1]
    /\ ranBy' = ranBy \cup {c}
    /\ ipc' = [ipc EXCEPT ![c] = "check"]
    /\ UNCHANGED <<m_guard, mutex, icv, sigpending, tpc, tret, tunw,
                   thandler, hpc, hhandler, calls, cur, aborted, exception>>
    /\ UNCHANGED jvars
    /\ UNCHANGED xvars
\* interrupt(), line 2225: pthread_kill(target, SIGUSR1)
interrupt_kill(c) ==
    /\ ~aborted
    /\ ipc[c] = "installed"
    /\ sigpending' = TRUE
    /\ ipc' = [ipc EXCEPT ![c] = "check"]
    /\ UNCHANGED <<m_guard, interrupt, mutex, icv, tpc, tret, tunw,
                   thandler, hpc, hhandler, calls, cur, hist, ranBy, aborted,
                   exception>>
    /\ UNCHANGED jvars
    /\ UNCHANGED xvars

\* (mutant) interrupt() returns without waiting for the slot to be emptied
interrupt_wait_skipped(c) ==
    /\ ~aborted
    /\ ipc[c] = "check"
    /\ mutex = c
    /\ ipc' = [ipc EXCEPT ![c] = "returned"]
    /\ UNCHANGED <<m_guard, interrupt, mutex, icv, sigpending, tpc, tret,
                   tunw, thandler, hpc, hhandler, calls, cur, hist, ranBy,
                   aborted, exception>>
    /\ UNCHANGED jvars
    /\ UNCHANGED xvars
\* interrupt(), lines 2230-2235: while (m_data->interrupt) icv.wait(lock);
\* one evaluation of the loop condition, made with the mutex held.
interrupt_wait(c) ==
    /\ ~aborted
    /\ ipc[c] = "check"
    /\ mutex = c
    /\ IF interrupt # NULL
          THEN /\ mutex' = NoOwner
               /\ icv' = icv \cup {c}
               /\ ipc' = [ipc EXCEPT ![c] = "waiting"]
          ELSE /\ ipc' = [ipc EXCEPT ![c] = "returned"]
               /\ UNCHANGED <<mutex, icv>>
    /\ UNCHANGED <<m_guard, interrupt, sigpending, tpc, tret, tunw,
                   thandler, hpc, hhandler, calls, cur, hist, ranBy, aborted,
                   exception>>
    /\ UNCHANGED jvars
    /\ UNCHANGED xvars

\* (mutant) 'if' for 'while': the slot is not tested again after a wake-up
interrupt_wake_once(c) ==
    /\ ~aborted
    /\ ipc[c] = "woken"
    /\ mutex_lock(c)
    /\ ipc' = [ipc EXCEPT ![c] = "returned"]
    /\ UNCHANGED <<m_guard, interrupt, icv, sigpending, tpc, tret, tunw,
                   thandler, hpc, hhandler, calls, cur, hist, ranBy, aborted,
                   exception>>
    /\ UNCHANGED jvars
    /\ UNCHANGED xvars
\* icv.wait returning: the woken thread reacquires the mutex and the loop
\* of line 2230 tests the slot again.
interrupt_wake(c) ==
    /\ ~aborted
    /\ ipc[c] = "woken"
    /\ mutex_lock(c)
    /\ ipc' = [ipc EXCEPT ![c] = "check"]
    /\ UNCHANGED <<m_guard, interrupt, icv, sigpending, tpc, tret, tunw,
                   thandler, hpc, hhandler, calls, cur, hist, ranBy, aborted,
                   exception>>
    /\ UNCHANGED jvars
    /\ UNCHANGED xvars

\* icv.wait may return without a notification (spurious wake-up).
interrupt_spurious(c) ==
    /\ ~aborted
    /\ ipc[c] = "waiting"
    /\ c \in icv
    /\ icv' = icv \ {c}
    /\ ipc' = [ipc EXCEPT ![c] = "woken"]
    /\ UNCHANGED <<m_guard, interrupt, mutex, sigpending, tpc, tret, tunw,
                   thandler, hpc, hhandler, calls, cur, hist, ranBy, aborted,
                   exception>>
    /\ UNCHANGED jvars
    /\ UNCHANGED xvars

\* thread_ctrl::unlock after interrupt() returned or raised its error.
unlock(c) ==
    /\ ~aborted
    /\ ipc[c] \in {"returned", "failed"}
    /\ IF c = Target THEN mutex' = mutex ELSE mutex_unlock(c)
    /\ ipc' = [ipc EXCEPT ![c] = "idle"]
    /\ UNCHANGED <<m_guard, interrupt, icv, sigpending, tpc, tret, tunw,
                   thandler, hpc, hhandler, calls, cur, hist, ranBy, aborted,
                   exception>>
    /\ UNCHANGED jvars
    /\ UNCHANGED xvars

\* ======================================================================
\* The target thread: its task (guard scopes, safe points), then finalize
\* ======================================================================

\* What became of handler h (history of the latest call of h's owner).
discarded(h) == [hist EXCEPT ![h].status = "discarded"]
taken(h)     == [hist EXCEPT ![h].status = "taken"]

\* handler(): the handler h runs on the stack of thread thr, inside 'where'.
run_handler(thr, h, where) ==
    /\ hist' = [hist EXCEPT ![h].status = "ran",
                            ![h].ranIn = where,
                            ![h].ranLevel = m_guard.level,
                            ![h].execs = @ + 1]
    /\ ranBy' = ranBy \cup {thr}

\* lock(), unlock(), icv.notify_one() after the slot was emptied: the wake-up
wake_one ==
    \E ws \in notify_one(icv) :
        /\ icv' = ws
        /\ ipc' = [t \in Threads |->
                     IF t \in icv \ ws THEN "woken" ELSE ipc[t]]

\* the target's main flow runs: it is not inside the signal handler
in_task == ~aborted /\ hpc = "none" /\ ipc[Target] = "idle"

\* entering a guarded section: ++m_guard
guard_enter ==
    /\ in_task /\ tpc = "task"
    /\ m_guard.level < MaxGuard
    /\ m_guard' = [m_guard EXCEPT !.level = @ + 1]
    /\ UNCHANGED <<interrupt, mutex, icv, sigpending, tpc, tret, tunw,
                   thandler, hpc, hhandler, ipc, calls, cur, hist, ranBy, aborted,
                   exception>>
    /\ UNCHANGED jvars
    /\ UNCHANGED xvars

\* leaving a guarded section: --m_guard, then test_interrupt()
guard_leave(unw) ==
    /\ in_task /\ tpc = "task"
    /\ m_guard.level > 0
    /\ m_guard' = [m_guard EXCEPT !.level = @ - 1]
    /\ tpc' = "ti_entry" /\ tret' = "task" /\ tunw' = unw
    /\ UNCHANGED <<interrupt, mutex, icv, sigpending, thandler, hpc,
                   hhandler, ipc, calls, cur, hist, ranBy, aborted, exception>>
    /\ UNCHANGED jvars
    /\ UNCHANGED xvars

\* a safe point of the task: test_interrupt() is called
safe_point(unw) ==
    /\ in_task /\ tpc = "task"
    /\ tpc' = "ti_entry" /\ tret' = "task" /\ tunw' = unw
    /\ UNCHANGED <<m_guard, interrupt, mutex, icv, sigpending, thandler, hpc,
                   hhandler, ipc, calls, cur, hist, ranBy, aborted, exception>>
    /\ UNCHANGED jvars
    /\ UNCHANGED xvars

\* thread_ctrl::start, lines 1894-1904: task.exec() returns or an error
\* escapes it and is stored; finalize() follows.
task_exec(threw) ==
    /\ in_task /\ tpc = "task"
    /\ m_guard.level = 0
    /\ exception' = threw
    /\ tpc' = "finalize"
    /\ UNCHANGED <<m_guard, interrupt, mutex, icv, sigpending, tret, tunw,
                   thandler, hpc, hhandler, ipc, calls, cur, hist, ranBy, aborted>>
    /\ UNCHANGED jvars
    /\ UNCHANGED xvars

\* interrupt_disable(): m_guard |= 0x80000000
interrupt_disable(g) == [g EXCEPT !.disabled = TRUE]

\* finalize(), lines 1986-1987: interrupt_disable(); test_interrupt();
finalize ==
    /\ in_task /\ tpc = "finalize"
    /\ m_guard' = interrupt_disable(m_guard)
    /\ tpc' = "ti_entry" /\ tret' = "finalize_rest" /\ tunw' = FALSE
    /\ UNCHANGED <<interrupt, mutex, icv, sigpending, thandler, hpc,
                   hhandler, ipc, calls, cur, hist, ranBy, aborted, exception>>
    /\ UNCHANGED jvars
    /\ UNCHANGED xvars

\* finalize(), lines 1990-1995, and the thread function returns.
finalize_rest ==
    /\ in_task /\ tpc = "finalize_rest"
    /\ tpc' = "exited"
    /\ UNCHANGED <<m_guard, interrupt, mutex, icv, sigpending, tret, tunw,
                   thandler, hpc, hhandler, ipc, calls, cur, hist, ranBy, aborted,
                   exception>>
    /\ UNCHANGED jvars
    /\ UNCHANGED xvars

\* ---------------------------------------------------- test_interrupt()
\* lines 2240-2252: the tests of m_guard.  With the top bit set the slot is
\* emptied at once (line 2242); with m_guard == 0x40000000 and no exception
\* in flight m_guard is cleared and the exchange of line 2255 follows.
test_interrupt_entry ==
    /\ in_task /\ tpc = "ti_entry"
    /\ IF guard_disabled(m_guard)
         THEN /\ interrupt' = NULL
              /\ IF interrupt # NULL
                   THEN hist' = discarded(interrupt) /\ tpc' = "ti_lock"
                   ELSE hist' = hist /\ tpc' = tret
              /\ m_guard' = m_guard
         ELSE IF guard_is_deferred_only(m_guard) /\ ~tunw
           THEN /\ m_guard' = ZeroGuard
                /\ tpc' = "ti_take"
                /\ UNCHANGED <<interrupt, hist>>
           ELSE /\ tpc' = tret
                /\ UNCHANGED <<m_guard, interrupt, hist>>
    /\ thandler' = NULL
    /\ UNCHANGED <<mutex, icv, sigpending, tret, tunw, hpc, hhandler, ipc,
                   calls, cur, ranBy, aborted, exception>>
    /\ UNCHANGED jvars
    /\ UNCHANGED xvars

\* (mutant) the slot is read and left as it is
test_interrupt_take_keeps ==
    /\ in_task /\ tpc = "ti_take"
    /\ interrupt' = interrupt
    /\ thandler' = interrupt
    /\ IF interrupt # NULL
         THEN hist' = taken(interrupt) /\ tpc' = "ti_lock"
         ELSE hist' = hist /\ tpc' = tret
    /\ UNCHANGED <<m_guard, mutex, icv, sigpending, tret, tunw, hpc,
                   hhandler, ipc, calls, cur, ranBy, aborted, exception>>
    /\ UNCHANGED jvars
    /\ UNCHANGED xvars
\* line 2255: handler = m_data->interrupt.exchange(nullptr)
test_interrupt_take ==
    /\ in_task /\ tpc = "ti_take"
    /\ interrupt' = NULL
    /\ thandler' = interrupt
    /\ IF interrupt # NULL
         THEN hist' = taken(interrupt) /\ tpc' = "ti_lock"
         ELSE hist' = hist /\ tpc' = tret
    /\ UNCHANGED <<m_guard, mutex, icv, sigpending, tret, tunw, hpc,
                   hhandler, ipc, calls, cur, ranBy, aborted, exception>>
    /\ UNCHANGED jvars
    /\ UNCHANGED xvars

\* lines 2244, 2257: lock()
test_interrupt_lock ==
    /\ in_task /\ tpc = "ti_lock"
    /\ mutex_lock(Target)
    /\ tpc' = "ti_unlock"
    /\ UNCHANGED <<m_guard, interrupt, icv, sigpending, tret, tunw, thandler,
                   hpc, hhandler, ipc, calls, cur, hist, ranBy, aborted, exception>>
    /\ UNCHANGED jvars
    /\ UNCHANGED xvars

\* lines 2244, 2257: unlock()
test_interrupt_unlock ==
    /\ in_task /\ tpc = "ti_unlock"
    /\ mutex_unlock(Target)
    /\ tpc' = "ti_notify"
    /\ UNCHANGED <<m_guard, interrupt, icv, sigpending, tret, tunw, thandler,
                   hpc, hhandler, ipc, calls, cur, hist, ranBy, aborted, exception>>
    /\ UNCHANGED jvars
    /\ UNCHANGED xvars

\* lines 2244, 2257: m_data->icv.notify_one()
test_interrupt_notify ==
    /\ in_task /\ tpc = "ti_notify"
    /\ wake_one
    /\ tpc' = IF thandler # NULL THEN "ti_exec" ELSE tret
    /\ UNCHANGED <<m_guard, interrupt, mutex, sigpending, tret, tunw,
                   thandler, hpc, hhandler, calls, cur, hist, ranBy, aborted,
                   exception>>
    /\ UNCHANGED jvars
    /\ UNCHANGED xvars

\* line 2259: return handler();
test_interrupt_exec ==
    /\ in_task /\ tpc = "ti_exec"
    /\ run_handler(Target, thandler, "test_interrupt")
    /\ thandler' = NULL
    /\ tpc' = tret
    /\ UNCHANGED <<m_guard, interrupt, mutex, icv, sigpending, tret, tunw,
                   hpc, hhandler, ipc, calls, cur, aborted, exception>>
    /\ UNCHANGED jvars
    /\ UNCHANGED xvars

\* ------------------------------------- signal_handler -> handle_interrupt()
\* SIGUSR1 is delivered to the target, wherever its main flow is (the signal
\* stays blocked while its handler runs); lines 2159-2194: m_guard is
\* examined and the slot exchanged, or the deferred bit set.
handle_interrupt ==
    /\ ~aborted
    /\ sigpending /\ hpc = "none" /\ tpc # "exited"
    /\ sigpending' = FALSE
    /\ IF guard_disabled(m_guard)
         THEN /\ interrupt' = NULL
              /\ hhandler' = NULL
              /\ IF interrupt # NULL
                   THEN hist' = discarded(interrupt) /\ hpc' = "hi_lock"
                   ELSE hist' = hist /\ hpc' = "none"
              /\ m_guard' = m_guard
         ELSE IF guard_is_zero(m_guard)
           THEN /\ interrupt' = NULL
                /\ hhandler' = interrupt
                /\ IF interrupt # NULL
                     THEN hist' = taken(interrupt) /\ hpc' = "hi_lock"
                     ELSE hist' = hist /\ hpc' = "none"
                /\ m_guard' = m_guard
           ELSE /\ m_guard' = [m_guard EXCEPT !.deferred = TRUE]
                /\ hist' = IF interrupt # NULL
                             THEN [hist EXCEPT ![interrupt].deferred = TRUE]
                             ELSE hist
                /\ hpc' = "none"
                /\ UNCHANGED <<interrupt, hhandler>>
    /\ UNCHANGED <<mutex, icv, tpc, tret, tunw, thandler, ipc, calls, cur, ranBy,
                   aborted, exception>>
    /\ UNCHANGED jvars
    /\ UNCHANGED xvars

\* lines 2164, 2174: _this->lock()
handle_interrupt_lock ==
    /\ ~aborted /\ hpc = "hi_lock"
    /\ mutex_lock(Target)
    /\ hpc' = "hi_unlock"
    /\ UNCHANGED <<m_guard, interrupt, icv, sigpending, tpc, tret, tunw,
                   thandler, hhandler, ipc, calls, cur, hist, ranBy, aborted,
                   exception>>
    /\ UNCHANGED jvars
    /\ UNCHANGED xvars

\* lines 2165, 2175: _this->unlock()
handle_interrupt_unlock ==
    /\ ~aborted /\ hpc = "hi_unlock"
    /\ mutex_unlock(Target)
    /\ hpc' = "hi_notify"
    /\ UNCHANGED <<m_guard, interrupt, icv, sigpending, tpc, tret, tunw,
                   thandler, hhandler, ipc, calls, cur, hist, ranBy, aborted,
                   exception>>
    /\ UNCHANGED jvars
    /\ UNCHANGED xvars

\* lines 2166, 2176: g_tls_internal->icv.notify_one()
handle_interrupt_notify ==
    /\ ~aborted /\ hpc = "hi_notify"
    /\ wake_one
    /\ hpc' = IF hhandler # NULL THEN "hi_exec" ELSE "none"
    /\ UNCHANGED <<m_guard, interrupt, mutex, sigpending, tpc, tret, tunw,
                   thandler, hhandler, calls, cur, hist, ranBy, aborted, exception>>
    /\ UNCHANGED jvars
    /\ UNCHANGED xvars

\* line 2186: return handler();
handle_interrupt_exec ==
    /\ ~aborted /\ hpc = "hi_exec"
    /\ run_handler(Target, hhandler, "handle_interrupt")
    /\ hhandler' = NULL
    /\ hpc' = "none"
    /\ UNCHANGED <<m_guard, interrupt, mutex, icv, sigpending, tpc, tret,
                   tunw, thandler, ipc, calls, cur, aborted, exception>>
    /\ UNCHANGED jvars
    /\ UNCHANGED xvars

\* The signal handler calls lock() (line 2164 or 2174) while the main flow of
\* the same thread holds the mutex between lock() and unlock() of
\* test_interrupt: relocking an owned std::mutex is undefined; the thread
\* blocks for ever (no step) or the process dies (this step).
relock_abort ==
    /\ ~aborted /\ hpc = "hi_lock" /\ mutex = Target
    /\ aborted' = TRUE
    /\ UNCHANGED <<m_guard, interrupt, mutex, icv, sigpending, tpc, tret,
                   tunw, thandler, hpc, hhandler, ipc, calls, cur, hist, ranBy,
                   exception>>
    /\ UNCHANGED jvars
    /\ UNCHANGED xvars

\* ======================================================================
\* The interrupt specification
\* ======================================================================
TargetNext ==
    \/ guard_enter
    \/ \E unw \in BOOLEAN : guard_leave(unw)
    \/ \E unw \in BOOLEAN : safe_point(unw)
    \/ \E threw \in BOOLEAN : task_exec(threw)
    \/ finalize
    \/ finalize_rest
    \/ test_interrupt_entry
    \/ test_interrupt_take
    \/ test_interrupt_lock
    \/ test_interrupt_unlock
    \/ test_interrupt_notify
    \/ test_interrupt_exec
    \/ handle_interrupt
    \/ handle_interrupt_lock
    \/ handle_interrupt_unlock
    \/ handle_interrupt_notify
    \/ handle_interrupt_exec
    \/ relock_abort
    \/ interrupt_verify(Target)
    \/ unlock(Target)

CallerNext(c) ==
    \/ lock(c)
    \/ interrupt_verify(c)
    \/ interrupt_kill(c)
    \/ interrupt_wait(c)
    \/ interrupt_wake(c)
    \/ interrupt_spurious(c)
    \/ unlock(c)

Next == TargetNext \/ \E c \in Callers : CallerNext(c)

Spec == Init /\ [][Next]_vars

\* The scheduling the interrupt protocol relies on: a pending signal is
\* delivered, a thread that can take a step of test_interrupt, of
\* handle_interrupt or of lock(); interrupt(); unlock() takes it, and a
\* thread blocked in lock() gets the mutex if it is free again and again.
\* No thread is obliged to start a call, the task is not obliged to do
\* anything, and no wait is obliged to wake up spuriously.
MainSteps ==
    \/ test_interrupt_entry
    \/ test_interrupt_take
    \/ test_interrupt_unlock
    \/ test_interrupt_notify
    \/ test_interrupt_exec
    \/ finalize
    \/ finalize_rest

HandlerSteps ==
    \/ handle_interrupt_unlock
    \/ handle_interrupt_notify
    \/ handle_interrupt_exec

CallSteps(c) ==
    \/ interrupt_verify(c)
    \/ interrupt_kill(c)
    \/ interrupt_wait(c)
    \/ unlock(c)

Fairness ==
    /\ WF_vars(MainSteps)
    /\ WF_vars(handle_interrupt)
    /\ WF_vars(HandlerSteps)
    /\ SF_vars(test_interrupt_lock)
    /\ SF_vars(handle_interrupt_lock)
    /\ \A c \in Callers : WF_vars(CallSteps(c)) /\ SF_vars(interrupt_wake(c))

FairSpec == Init /\ [][Next]_vars /\ Fairness

\* ======================================================================
\* thread_ctrl::join, lines 2047-2082
\* m_joining is kept as (done, n): the u32 value done * 0x80000000 + n
\* ======================================================================
Sentinel == [done |-> TRUE, n |-> 0]       \* 0x80000000
\* _j >= 0x80000000
already_joined(j0) == j0.done
\* (mutant) every caller that finds the thread not yet joined joins it
is_winner_loose(j0) == ~j0.done
\* _j == 0
is_winner(j0) == ~j0.done /\ j0.n = 0

\* (mutant) notify_one for notify_all
notify_all_wakes_one(ws) == IF ws = {} THEN {ws} ELSE {ws \ {w} : w \in ws}
\* condition_variable::notify_all on the waiter set ws: the waiter sets it
\* can leave
notify_all(ws) == {{}}

\* line 2050: const u32 _j = m_joining++; and the branch taken on _j
join_increment(j) ==
    /\ ~aborted
    /\ jpc[j] = "idle"
    /\ jlocal' = [jlocal EXCEPT ![j] = m_joining]
    /\ m_joining' = [m_joining EXCEPT !.n = @ + 1]
    /\ jpc' = [jpc EXCEPT ![j] =
                 IF already_joined(m_joining) THEN "already"
                 ELSE IF is_winner(m_joining) THEN "winner"
                 ELSE "hard"]
    /\ UNCHANGED <<mutex, tpc, aborted, exception, jcv, osjoins>>
    /\ UNCHANGED junw
    /\ UNCHANGED ivars
    /\ UNCHANGED xvars

\* (mutant) the late caller writes 0 for 0x80000000
join_already_clears(j) ==
    /\ ~aborted
    /\ jpc[j] = "already"
    /\ m_joining' = [done |-> FALSE, n |-> 0]
    /\ jpc' = [jpc EXCEPT ![j] = "test"]
    /\ UNCHANGED <<mutex, tpc, aborted, exception, jlocal, jcv, osjoins>>
    /\ UNCHANGED junw
    /\ UNCHANGED ivars
    /\ UNCHANGED xvars

\* line 2055: m_joining = 0x80000000
join_already(j) ==
    /\ ~aborted
    /\ jpc[j] = "already"
    /\ m_joining' = Sentinel
    /\ jpc' = [jpc EXCEPT ![j] = "test"]
    /\ UNCHANGED <<mutex, tpc, aborted, exception, jlocal, jcv, osjoins>>
    /\ UNCHANGED junw
    /\ UNCHANGED ivars
    /\ UNCHANGED xvars

\* line 2060: std::thread::join(), which returns once the thread function
\* (task, then finalize) has returned
join_thread(j) ==
    /\ ~aborted
    /\ jpc[j] = "winner"
    /\ tpc = "exited"
    /\ osjoins' = Append(osjoins, j)
    /\ jpc' = [jpc EXCEPT ![j] = "exchange"]
    /\ UNCHANGED <<mutex, tpc, aborted, exception, m_joining, jlocal, jcv>>
    /\ UNCHANGED junw
    /\ UNCHANGED ivars
    /\ UNCHANGED xvars

\* line 2063: m_joining.exchange(0x80000000) != 1
join_exchange(j) ==
    /\ ~aborted
    /\ jpc[j] = "exchange"
    /\ m_joining' = Sentinel
    /\ jpc' = [jpc EXCEPT ![j] =
                 IF m_joining # [done |-> FALSE, n |-> 1] THEN "n_lock"
                                                          ELSE "test"]
    /\ UNCHANGED <<mutex, tpc, aborted, exception, jlocal, jcv, osjoins>>
    /\ UNCHANGED junw
    /\ UNCHANGED ivars
    /\ UNCHANGED xvars

\* line 2066: m_data->mutex.lock()
join_notify_lock(j) ==
    /\ ~aborted
    /\ jpc[j] = "n_lock"
    /\ mutex_lock(j)
    /\ jpc' = [jpc EXCEPT ![j] = "n_unlock"]
    /\ UNCHANGED <<tpc, aborted, exception, m_joining, jlocal, jcv, osjoins>>
    /\ UNCHANGED junw
    /\ UNCHANGED ivars
    /\ UNCHANGED xvars

\* line 2067: m_data->mutex.unlock()
join_notify_unlock(j) ==
    /\ ~aborted
    /\ jpc[j] = "n_unlock"
    /\ mutex_unlock(j)
    /\ jpc' = [jpc EXCEPT ![j] = "n_notify"]
    /\ UNCHANGED <<tpc, aborted, exception, m_joining, jlocal, jcv, osjoins>>
    /\ UNCHANGED junw
    /\ UNCHANGED ivars
    /\ UNCHANGED xvars

\* line 2068: m_data->jcv.notify_all()
join_notify(j) ==
    /\ ~aborted
    /\ jpc[j] = "n_notify"
    /\ \E ws \in notify_all(jcv) :
         /\ jcv' = ws
         /\ jpc' = [k \in Joiners |->
                      IF k = j THEN "test"
                      ELSE IF k \in jcv \ ws THEN "woken" ELSE jpc[k]]
    /\ UNCHANGED <<mutex, tpc, aborted, exception, m_joining, jlocal, osjoins>>
    /\ UNCHANGED junw
    /\ UNCHANGED ivars
    /\ UNCHANGED xvars

\* line 2074: std::unique_lock<std::mutex> lock(m_data->mutex)
join_wait_lock(j) ==
    /\ ~aborted
    /\ jpc[j] = "hard"
    /\ mutex_lock(j)
    /\ jpc' = [jpc EXCEPT ![j] = "pred"]
    /\ UNCHANGED <<tpc, aborted, exception, m_joining, jlocal, jcv, osjoins>>
    /\ UNCHANGED junw
    /\ UNCHANGED ivars
    /\ UNCHANGED xvars

\* line 2075: jcv.wait(lock, pred): the predicate m_joining >= 0x80000000
\* is evaluated with the mutex held; when it holds the wait is over and
\* the lock is released at the end of the block.
join_wait_pred(j) ==
    /\ ~aborted
    /\ jpc[j] = "pred"
    /\ mutex = j
    /\ IF already_joined(m_joining)
         THEN mutex' = NoOwner /\ jpc' = [jpc EXCEPT ![j] = "test"]
         ELSE mutex' = mutex /\ jpc' = [jpc EXCEPT ![j] = "wait"]
    /\ UNCHANGED <<tpc, aborted, exception, m_joining, jlocal, jcv, osjoins>>
    /\ UNCHANGED junw
    /\ UNCHANGED ivars
    /\ UNCHANGED xvars

\* line 2075: the predicate was false: the thread enters the wait, which
\* releases the mutex
join_wait(j) ==
    /\ ~aborted
    /\ jpc[j] = "wait"
    /\ mutex_unlock(j)
    /\ jcv' = jcv \cup {j}
    /\ jpc' = [jpc EXCEPT ![j] = "waiting"]
    /\ UNCHANGED <<tpc, aborted, exception, m_joining, jlocal, osjoins>>
    /\ UNCHANGED junw
    /\ UNCHANGED ivars
    /\ UNCHANGED xvars

\* jcv.wait may return without a notification (spurious wake-up)
join_spurious(j) ==
    /\ ~aborted
    /\ jpc[j] = "waiting"
    /\ j \in jcv
    /\ jcv' = jcv \ {j}
    /\ jpc' = [jpc EXCEPT ![j] = "woken"]
    /\ UNCHANGED <<mutex, tpc, aborted, exception, m_joining, jlocal, osjoins>>
    /\ UNCHANGED junw
    /\ UNCHANGED ivars
    /\ UNCHANGED xvars

\* the woken thread reacquires the mutex and evaluates the predicate again
join_wake(j) ==
    /\ ~aborted
    /\ jpc[j] = "woken"
    /\ mutex_lock(j)
    /\ jpc' = [jpc EXCEPT ![j] = "pred"]
    /\ UNCHANGED <<tpc, aborted, exception, m_joining, jlocal, jcv, osjoins>>
    /\ UNCHANGED junw
    /\ UNCHANGED ivars
    /\ UNCHANGED xvars

\* (mutant) the stored exception is never rethrown
join_test_swallows(j, unw) ==
    /\ ~aborted
    /\ jpc[j] = "test"
    /\ junw' = [junw EXCEPT ![j] = unw]
    /\ jpc' = [jpc EXCEPT ![j] = "returned"]
    /\ UNCHANGED <<mutex, tpc, aborted, exception, m_joining, jlocal, jcv,
                   osjoins>>
    /\ UNCHANGED ivars
    /\ UNCHANGED xvars

\* lines 2078-2081: the stored exception is rethrown, unless the caller is
\* itself unwinding (std::uncaught_exception())
join_test(j, unw) ==
    /\ ~aborted
    /\ jpc[j] = "test"
    /\ junw' = [junw EXCEPT ![j] = unw]
    /\ jpc' = [jpc EXCEPT ![j] =
                 IF exception /\ ~unw THEN "rethrown" ELSE "returned"]
    /\ UNCHANGED <<mutex, tpc, aborted, exception, m_joining, jlocal, jcv,
                   osjoins>>
    /\ UNCHANGED ivars
    /\ UNCHANGED xvars

JoinSteps(j) ==
    \/ join_already(j)
    \/ join_thread(j)
    \/ join_exchange(j)
    \/ join_notify_lock(j)
    \/ join_notify_unlock(j)
    \/ join_notify(j)
    \/ join_wait_lock(j)
    \/ join_wait_pred(j)
    \/ join_wait(j)
    \/ join_wake(j)
    \/ \E unw \in BOOLEAN : join_test(j, unw)

\* the thread function of thread_ctrl::start: the task, then finalize()
ThreadBody ==
    \/ \E threw \in BOOLEAN : task_exec(threw)
    \/ finalize
    \/ test_interrupt_entry
    \/ finalize_rest

JoinNext ==
    \/ ThreadBody
    \/ \E j \in Joiners : join_increment(j) \/ join_spurious(j) \/ JoinSteps(j)

JoinSpec == Init /\ [][JoinNext]_vars

\* Scheduling: the joined thread runs its body and a thread inside join()
\* that can take a step takes it; no thread is obliged to call join(), and
\* no wait is obliged to wake up spuriously.
FairJoinSpec ==
    /\ Init /\ [][JoinNext]_vars
    /\ WF_vars(ThreadBody)
    /\ \A j \in Joiners : WF_vars(JoinSteps(j))

\* ======================================================================
\* decode_x64_reg_op, lines 147-698
\* The instruction stream is a sequence of bytes (0..255); cd[i] is the
\* byte at 1-based position i. Registers keep the values of x64_reg_t, so
\* that the aliases of the enumeration (XMM0 = RAX, ECX = CL) are kept.
\* ======================================================================
X64R_RAX    == 0
X64R_RCX    == 1
X64R_XMM0   == 0
X64R_AL     == 16
X64R_AH     == 20
X64_NOT_SET == 24
X64_IMM8    == 25
X64_IMM16   == 26
X64_IMM32   == 27
X64_BIT_O   == 144
X64R_ECX    == 17

\* bit n (of weight 2^n) of the byte b: b & (1 << n)
bit(b, n) == (b \div (2 ^ n)) % 2 = 1

\* lines 152-154: the prefix flags before the scan
NoPrefix == [rex |-> 0, pg2 |-> 0, oso |-> FALSE, lock |-> FALSE,
             repne |-> FALSE, repe |-> FALSE, aso |-> FALSE]

\* lines 164-256: the prefix scan from position i. The result is the flags
\* and the position of the first byte that is not a prefix; aso is set when
\* the scan met the address-size override 0x67 and gave up.
RECURSIVE check_prefixes(_, _, _)
check_prefixes(cd, i, st) ==
    LET prefix == cd[i] IN
    CASE prefix = 240 -> check_prefixes(cd, i + 1, [st EXCEPT !.lock = TRUE])
      [] prefix = 242 -> check_prefixes(cd, i + 1, [st EXCEPT !.repne = TRUE])
      [] prefix = 243 -> check_prefixes(cd, i + 1, [st EXCEPT !.repe = TRUE])
      [] prefix \in {46, 54, 62, 38, 100, 101} ->
            check_prefixes(cd, i + 1,
                [st EXCEPT !.pg2 = IF st.pg2 # 0 THEN st.pg2 ELSE prefix])
      [] prefix = 102 -> check_prefixes(cd, i + 1, [st EXCEPT !.oso = TRUE])
      [] prefix = 103 -> [st |-> [st EXCEPT !.aso = TRUE], pos |-> i]
      [] prefix \div 16 = 4 ->
            check_prefixes(cd, i + 1,
                [st EXCEPT !.rex = IF st.rex # 0 THEN st.rex ELSE prefix])
      [] OTHER -> [st |-> st, pos |-> i]

\* line 260
get_modRM_reg(b, rex) ==
    ((b \div 8) % 8) + (IF bit(rex, 2) THEN 8 ELSE 0) + X64R_RAX
\* line 265
get_modRM_reg_xmm(b, rex) ==
    ((b \div 8) % 8) + (IF bit(rex, 2) THEN 8 ELSE 0) + X64R_XMM0
\* line 270
get_modRM_reg_lh(b) == ((b \div 8) % 8) + X64R_AL
\* line 275
get_op_size(rex, oso) == IF bit(rex, 3) THEN 8 ELSE IF oso THEN 2 ELSE 4

\* lines 278-287
get_modRM_size(b) ==
    CASE b \div 64 = 0 -> IF b % 8 = 4 THEN 2 ELSE 1
      [] b \div 64 = 1 -> IF b % 8 = 4 THEN 3 ELSE 2
      [] b \div 64 = 2 -> IF b % 8 = 4 THEN 6 ELSE 5
      [] OTHER -> 1

\* the four outputs of decode_x64_reg_op
Decoded(op, reg, size, length) ==
    [op |-> op, reg |-> reg, size |-> size, length |-> length]
\* lines 694-697 (and 231-234)
DecodedNone == Decoded("X64OP_NONE", X64_NOT_SET, 0, 0)

\* lines 428-438: the operation of the group opcode 0x80
group_op_80(r) ==
    CASE r = 1 -> "X64OP_OR"  [] r = 2 -> "X64OP_ADC" [] r = 3 -> "X64OP_SBB"
      [] r = 4 -> "X64OP_AND" [] r = 5 -> "X64OP_SUB" [] r = 6 -> "X64OP_XOR"
      [] OTHER -> "X64OP_LOAD_CMP"
\* lines 447-457, 466-476: the operation of the group opcodes 0x81 and 0x83
group_op_81(r) ==
    CASE r = 0 -> "X64OP_ADD"
      [] r = 1 -> "X64OP_OR"  [] r = 2 -> "X64OP_ADC" [] r = 3 -> "X64OP_SBB"
      [] r = 4 -> "X64OP_AND" [] r = 5 -> "X64OP_SUB" [] r = 6 -> "X64OP_XOR"
      [] OTHER -> "X64OP_LOAD_CMP"
\* lines 668-672, 681-685: the operation of the group opcodes 0xF6 and 0xF7
group_op_f6(r) == IF r = 0 THEN "X64OP_LOAD_TEST" ELSE "X64OP_NONE"

\* lines 293-401: the opcodes behind the escape byte 0x0F; c is the position
\* after the second opcode byte op2 and len the length counted so far
decode_0f(cd, c, len, st) ==
    LET op2 == cd[c - 1]
        op3 == cd[c]
        rex == st.rex
    IN
    CASE op2 \in {17, 41} /\ ~st.repe /\ ~st.repne ->
            Decoded("X64OP_STORE", get_modRM_reg_xmm(cd[c], rex), 16,
                    len + get_modRM_size(cd[c]))
      [] op2 = 127 /\ ((st.repe /\ ~st.oso) \/ (~st.repe /\ st.oso)) ->
            Decoded("X64OP_STORE", get_modRM_reg_xmm(cd[c], rex), 16,
                    len + get_modRM_size(cd[c]))
      [] op2 = 176 /\ ~st.oso ->
            Decoded("X64OP_CMPXCHG",
                    IF bit(rex, 3) THEN get_modRM_reg(cd[c], rex)
                                   ELSE get_modRM_reg_lh(cd[c]),
                    1, len + get_modRM_size(cd[c]))
      [] op2 = 177 ->
            Decoded("X64OP_CMPXCHG", get_modRM_reg(cd[c], rex),
                    get_op_size(rex, st.oso), len + get_modRM_size(cd[c]))
      [] op2 \in ((144..152) \cup (154..159)) /\ ~st.lock ->
            Decoded("X64OP_STORE", X64_BIT_O + op2 - 144, 1,
                    len + get_modRM_size(cd[c]))
      [] op2 = 56 /\ op3 \in {240, 241} /\ ~st.repne ->
            Decoded(IF op3 = 240 THEN "X64OP_LOAD_BE" ELSE "X64OP_STORE_BE",
                    get_modRM_reg(cd[c + 1], rex),
                    get_op_size(rex, st.oso),
                    len + 1 + get_modRM_size(cd[c + 1]))
      [] OTHER -> DecodedNone

\* lines 591-641: the VEX prefixes 0xC4 and 0xC5; c is the position of op2
decode_vex(cd, c, len, st) ==
    LET op1   == cd[c - 1]
        op2   == cd[c]
        op3   == cd[c + 1]
        opx   == IF op1 = 197 THEN op2 ELSE op3
        rexr  == IF bit(op2, 7) \/ bit(st.rex, 2) THEN st.rex ELSE st.rex + 4
        rex   == IF op1 = 196 /\ bit(op3, 7) /\ ~bit(rexr, 3)
                    THEN rexr + 8 ELSE rexr
        oso   == opx % 4 = 1
        repe  == opx % 4 = 2
        repne == opx % 4 = 3
        vopm  == IF op1 = 197 THEN 1 ELSE op2 % 32
        vop1  == IF op1 = 197 THEN op3 ELSE cd[c + 2]
        vlen  == IF bit(opx, 2) THEN 32 ELSE 16
        skip  == IF op1 = 197 THEN 2 ELSE 3
        modRM == cd[c + skip]
    IN
    CASE vopm = 1 /\ vop1 \in {17, 41} /\ ~repe /\ ~repne ->
            Decoded("X64OP_STORE", get_modRM_reg_xmm(modRM, rex), vlen,
                    len + skip + get_modRM_size(modRM))
      [] vopm = 1 /\ vop1 = 127 /\ (repe \/ oso) ->
            Decoded("X64OP_STORE", get_modRM_reg_xmm(modRM, rex), vlen,
                    len + skip + get_modRM_size(modRM))
      [] OTHER -> DecodedNone

\* lines 289-698: the opcode switch; pos is the position of the first
\* opcode byte op1 and len the number of prefix bytes before it
decode_opcode(cd, pos, len0, st) ==
    LET op1   == cd[pos]
        c     == pos + 1
        len   == len0 + 1
        modRM == cd[c]
        rex   == st.rex
        reg8  == IF bit(rex, 3) THEN get_modRM_reg(modRM, rex)
                                ELSE get_modRM_reg_lh(modRM)
        reg   == get_modRM_reg(modRM, rex)
        size  == get_op_size(rex, st.oso)
        immz  == IF st.oso THEN 2 ELSE 4
        immr  == IF st.oso THEN X64_IMM16 ELSE X64_IMM32
        m     == get_modRM_size(modRM)
    IN
    CASE op1 = 15 -> decode_0f(cd, c + 1, len + 1, st)
      [] op1 = 32 /\ ~st.oso -> Decoded("X64OP_AND", reg8, 1, len + m)
      [] op1 = 33 -> Decoded("X64OP_AND", reg, size, len + m)
      [] op1 = 128 ->
            Decoded(group_op_80(get_modRM_reg(modRM, 0)), X64_IMM8, 1,
                    len + m + 1)
      [] op1 = 129 ->
            Decoded(group_op_81(get_modRM_reg(modRM, 0)), immr, size,
                    len + m + immz)
      [] op1 = 131 ->
            Decoded(group_op_81(get_modRM_reg(modRM, 0)), X64_IMM8, size,
                    len + m + 1)
      [] op1 = 134 /\ ~st.oso -> Decoded("X64OP_XCHG", reg8, 1, len + m)
      [] op1 = 135 -> Decoded("X64OP_XCHG", reg, size, len + m)
      [] op1 = 136 /\ ~st.lock /\ ~st.oso ->
            Decoded("X64OP_STORE", reg8, 1, len + m)
      [] op1 = 137 /\ ~st.lock -> Decoded("X64OP_STORE", reg, size, len + m)
      [] op1 = 138 /\ ~st.lock /\ ~st.oso ->
            Decoded("X64OP_LOAD", reg8, 1, len + m)
      [] op1 = 139 /\ ~st.lock -> Decoded("X64OP_LOAD", reg, size, len + m)
      [] op1 \in {164, 170} /\ ~st.oso /\ ~st.lock
                            /\ ((~st.repe /\ rex = 0) \/ st.repe) ->
            Decoded(IF op1 = 164 THEN "X64OP_MOVS" ELSE "X64OP_STOS",
                    IF ~st.repe THEN X64_NOT_SET
                    ELSE IF bit(rex, 3) THEN X64R_RCX ELSE X64R_ECX,
                    1, len)
      [] op1 \in {196, 197} -> decode_vex(cd, c, len, st)
      [] op1 = 198 /\ ~st.lock /\ ~st.oso /\ get_modRM_reg(modRM, 0) = 0 ->
            Decoded("X64OP_STORE", X64_IMM8, 1, len + m + 1)
      [] op1 = 199 /\ ~st.lock /\ get_modRM_reg(modRM, 0) = 0 ->
            Decoded("X64OP_STORE", immr, size, len + m + immz)
      [] op1 = 246 ->
            Decoded(group_op_f6(get_modRM_reg(modRM, 0)), X64_IMM8, 1,
                    len + m + 1)
      [] op1 = 247 ->
            Decoded(group_op_f6(get_modRM_reg(modRM, 0)), immr, size,
                    len + m + immz)
      [] OTHER -> DecodedNone

\* lines 147-698: decode the instruction that starts at position start
decode_x64_reg_op(cd, start) ==
    LET p == check_prefixes(cd, start, NoPrefix) IN
    IF p.st.aso THEN DecodedNone
    ELSE decode_opcode(cd, p.pos, p.pos - start, p.st)

\* ----------------------------------------------------------------------
\* The instructions the decoder is run on. An instruction is given by its
\* fields (prefix bytes, opcode bytes, ModRM byte, SIB byte); x64_encode
\* lays it out as the x86-64 instruction format does, and x64_length is
\* the number of bytes it occupies.
\* ----------------------------------------------------------------------
MaxPrefixes == 2

\* lock, rep, operand-size and address-size override, REX.R, REX.W
PrefixBytes == {240, 243, 102, 103, 68, 72}

RECURSIVE SeqsUpTo(_, _)
SeqsUpTo(S, n) ==
    IF n = 0 THEN {<<>>}
    ELSE LET shorter == SeqsUpTo(S, n - 1) IN
         shorter \cup {Append(q, b) : q \in {r \in shorter : Len(r) = n - 1},
                                       b \in S}

\* imm: "ib" an 8-bit immediate, "iz" a 16- or 32-bit one, "tb"/"tz" the
\* same for the /0 and /1 (TEST) operations of 0xF6/0xF7 only
Form(opc, modrm, imm) == [opc |-> opc, modrm |-> modrm, imm |-> imm]
Forms ==
    { Form(<<15, 17>>, TRUE, "none"),  Form(<<15, 41>>, TRUE, "none"),
      Form(<<15, 127>>, TRUE, "none"), Form(<<15, 176>>, TRUE, "none"),
      Form(<<15, 177>>, TRUE, "none"), Form(<<15, 148>>, TRUE, "none"),
      Form(<<15, 153>>, TRUE, "none"), Form(<<15, 159>>, TRUE, "none"),
      Form(<<15, 56, 240>>, TRUE, "none"),
      Form(<<15, 56, 241>>, TRUE, "none"),
      Form(<<32>>, TRUE, "none"),  Form(<<33>>, TRUE, "none"),
      Form(<<128>>, TRUE, "ib"),   Form(<<129>>, TRUE, "iz"),
      Form(<<131>>, TRUE, "ib"),
      Form(<<134>>, TRUE, "none"), Form(<<135>>, TRUE, "none"),
      Form(<<136>>, TRUE, "none"), Form(<<137>>, TRUE, "none"),
      Form(<<138>>, TRUE, "none"), Form(<<139>>, TRUE, "none"),
      Form(<<164>>, FALSE, "none"), Form(<<170>>, FALSE, "none"),
      Form(<<197, 248, 17>>, TRUE, "none"),
      Form(<<197, 254, 127>>, TRUE, "none"),
      Form(<<196, 225, 120, 41>>, TRUE, "none"),
      Form(<<198>>, TRUE, "ib"),   Form(<<199>>, TRUE, "iz"),
      Form(<<246>>, TRUE, "tb"),   Form(<<247>>, TRUE, "tz"),
      \* not enumerated by the decoder: add r/m,r; stosd; syscall; pshufb
      Form(<<1>>, TRUE, "none"),   Form(<<171>>, FALSE, "none"),
      Form(<<15, 5>>, FALSE, "none"), Form(<<15, 56, 0>>, TRUE, "none") }

\* ModRM bytes: every Mod, the reg fields 0, 1 and 5, the RM fields 0, 4
\* (SIB follows) and 5 (with Mod = 0: 32-bit displacement, no base)
ModRMs == {mod * 64 + r * 8 + rm : mod \in 0..3, r \in {0, 1, 5},
                                    rm \in {0, 4, 5}}
\* SIB bytes: base 0, and base 5 (with Mod = 0: 32-bit displacement)
SIBs == {32, 37}
\* the value of an absent ModRM or SIB byte (no byte)
NoByte == 255 + 1

Insns ==
    { [prefixes |-> pf, form |-> f,
       modrm |-> IF f.modrm THEN m ELSE NoByte,
       sib |-> IF f.modrm /\ m \div 64 # 3 /\ m % 8 = 4 THEN s ELSE NoByte] :
         pf \in SeqsUpTo(PrefixBytes, MaxPrefixes), f \in Forms,
         m \in ModRMs, s \in SIBs }

\* the REX prefix in effect: the byte right before the opcode, if it is one
x64_rex(i) ==
    IF i.prefixes # <<>> /\ i.prefixes[Len(i.prefixes)] \div 16 = 4
        THEN i.prefixes[Len(i.prefixes)] ELSE 0

\* bytes of displacement after ModRM (and SIB)
x64_disp(i) ==
    IF i.modrm = NoByte THEN 0
    ELSE CASE i.modrm \div 64 = 0 ->
                IF i.modrm % 8 = 5 THEN 4
                ELSE IF i.modrm % 8 = 4 /\ i.sib % 8 = 5 THEN 4 ELSE 0
           [] i.modrm \div 64 = 1 -> 1
           [] i.modrm \div 64 = 2 -> 4
           [] OTHER -> 0

\* bytes of immediate
x64_imm(i) ==
    LET iz == IF bit(x64_rex(i), 3) THEN 4
              ELSE IF \E k \in 1..Len(i.prefixes) : i.prefixes[k] = 102
                   THEN 2 ELSE 4
        test == (i.modrm \div 8) % 8 \in {0, 1}
    IN CASE i.form.imm = "ib" -> 1
         [] i.form.imm = "iz" -> iz
         [] i.form.imm = "tb" -> IF test THEN 1 ELSE 0
         [] i.form.imm = "tz" -> IF test THEN iz ELSE 0
         [] OTHER -> 0

\* the number of bytes the instruction occupies
x64_length(i) ==
    Len(i.prefixes) + Len(i.form.opc)
        + (IF i.modrm = NoByte THEN 0 ELSE 1)
        + (IF i.sib = NoByte THEN 0 ELSE 1)
        + x64_disp(i) + x64_imm(i)

\* the bytes of the instruction; displacement and immediate bytes are 0x11
x64_encode(i) ==
    i.prefixes \o i.form.opc
        \o (IF i.modrm = NoByte THEN <<>> ELSE <<i.modrm>>)
        \o (IF i.sib = NoByte THEN <<>> ELSE <<i.sib>>)
        \o [k \in 1..(x64_disp(i) + x64_imm(i)) |-> 17]

\* the instruction that follows in the stream: mov eax, ecx (89 C8), and
\* the bytes after it
Follower == <<137, 200, 144, 144, 144, 144>>

\* lines 1015-1023 and 1584: the instruction at the instruction pointer is
\* decoded and, when it was emulated, skipped by the decoded length; the
\* next fault decodes from there
decode_step ==
    /\ code # <<>>
    /\ Len(dres) < 2
    /\ dres # <<>> => dres[Len(dres)].op # "X64OP_NONE"
    /\ LET d == decode_x64_reg_op(code, dstart) IN
         /\ dres' = Append(dres, d)
         /\ dstart' = dstart + d.length
    /\ UNCHANGED <<code, insn>>
    /\ UNCHANGED fvars
    /\ UNCHANGED hvars
    /\ UNCHANGED <<pvars, evars, wvars, rvars>>
    /\ UNCHANGED <<mutex, tpc, aborted, exception>>
    /\ UNCHANGED ivars
    /\ UNCHANGED jvars

DecodeInit ==
    /\ ThreadInit
    /\ insn \in Insns
    /\ code = x64_encode(insn) \o Follower
    /\ dstart = 1
    /\ dres = <<>>
    /\ eflags = 0
    /\ cmpcall = NoCmp
    /\ NoHandler

DecodeNext == decode_step

DecodeSpec == DecodeInit /\ [][DecodeNext]_vars

\* ======================================================================
\* 64-bit unsigned arithmetic (u64). A value is kept as four 16-bit limbs,
\* v[1] the least significant, so that no intermediate result leaves the
\* range of the model checker's integers.
\* ======================================================================
Limb == 65536

\* the u64 with the value n, for 0 <= n < 2^31
u64(n) == <<n % Limb, n \div Limb, 0, 0>>

RECURSIVE and16(_, _)
and16(a, b) ==
    IF a = 0 \/ b = 0 THEN 0
    ELSE (a % 2) * (b % 2) + 2 * and16(a \div 2, b \div 2)
RECURSIVE xor16(_, _)
xor16(a, b) ==
    IF a = 0 THEN b ELSE IF b = 0 THEN a
    ELSE ((a + b) % 2) + 2 * xor16(a \div 2, b \div 2)
or16(a, b) == a + b - and16(a, b)

\* x & y, x | y, x ^ y, ~x
u64_and(x, y) == [k \in 1..4 |-> and16(x[k], y[k])]
u64_or(x, y)  == [k \in 1..4 |-> or16(x[k], y[k])]
u64_xor(x, y) == [k \in 1..4 |-> xor16(x[k], y[k])]
u64_not(x)    == [k \in 1..4 |-> Limb - 1 - x[k]]

\* x + y modulo 2^64
u64_add(x, y) ==
    LET s1 == x[1] + y[1]
        s2 == x[2] + y[2] + s1 \div Limb
        s3 == x[3] + y[3] + s2 \div Limb
        s4 == x[4] + y[4] + s3 \div Limb
    IN <<s1 % Limb, s2 % Limb, s3 % Limb, s4 % Limb>>
\* x - y modulo 2^64
u64_sub(x, y) == u64_add(u64_add(x, u64_not(y)), u64(1))

\* x < y
u64_less(x, y) ==
    \E k \in 1..4 : x[k] < y[k] /\ \A j \in (k + 1)..4 : x[j] = y[j]

\* bit n of x is set: x & (1ull << n)
u64_bit(x, n) == bit(x[(n \div 16) + 1], n % 16)

\* the u64 whose n low bits are set
u64_ones(n) ==
    [k \in 1..4 |-> IF n >= 16 * k THEN Limb - 1
                    ELSE IF n > 16 * (k - 1) THEN 2 ^ (n - 16 * (k - 1)) - 1
                    ELSE 0]
\* (u8)x, (u16)x, (u32)x, (u64)x: x truncated to d_size bytes
u64_trunc(x, d_size) == u64_and(x, u64_ones(8 * d_size))

\* ======================================================================
\* set_x64_cmp_flags, lines 886-960
\* EFLAGS is kept as the number made of its low 12 bits.
\* ======================================================================
\* EFLAGS |= 1 << n and EFLAGS &= ~(1 << n)
set_flag(f, n, on) ==
    IF on THEN (IF bit(f, n) THEN f ELSE f + 2 ^ n)
          ELSE (IF bit(f, n) THEN f - 2 ^ n ELSE f)

\* lines 937-941: (p3 & 1) == 0 for the low byte d of diff
parity_even(d) ==
    LET p1 == xor16(d, d \div 16)
        p2 == xor16(p1, p1 \div 4)
        p3 == xor16(p2, p2 \div 2)
    IN p3 % 2 = 0

\* lines 886-960: the result is the return value and the new EFLAGS
set_x64_cmp_flags(eflags0, d_size, x, y, carry) ==
    IF d_size \notin {1, 2, 4, 8} THEN [ok |-> FALSE, eflags |-> eflags0]
    ELSE
    LET sign == d_size * 8 - 1
        diff == u64_sub(x, y)
        summ == u64_add(x, y)
        cexp == u64_or(u64_and(x, y), u64_and(u64_xor(x, y), u64_not(summ)))
        f1   == IF carry THEN set_flag(eflags0, 0, u64_bit(cexp, sign))
                         ELSE eflags0
        f2   == set_flag(f1, 6, x = y)
        f3   == set_flag(f2, 7, u64_bit(diff, sign))
        f4   == set_flag(f3, 11,
                         u64_bit(u64_and(u64_xor(x, summ), u64_xor(y, summ)),
                                 sign))
        f5   == set_flag(f4, 2, parity_even(diff[1] % 256))
        f6   == set_flag(f5, 4, u64_bit(cexp, 3))
    IN [ok |-> TRUE, eflags |-> f6]

\* the operands set_x64_cmp_flags is run on at d_size bytes: 0, 1, 0x10,
\* the largest positive, the smallest negative and the all-ones value
CmpValues(d_size) ==
    {u64(0), u64(1), u64(16), u64_ones(8 * d_size - 1),
     u64_add(u64_ones(8 * d_size - 1), u64(1)), u64_ones(8 * d_size)}

\* lines 886-960: the call is made on the context's EFLAGS
set_x64_cmp_flags_call ==
    /\ cmpcall.state = "called"
    /\ LET r == set_x64_cmp_flags(eflags, cmpcall.d_size, cmpcall.x,
                                  cmpcall.y, cmpcall.carry)
       IN /\ eflags' = r.eflags
          /\ cmpcall' = [cmpcall EXCEPT
                            !.state = IF r.ok THEN "true" ELSE "false"]
    /\ UNCHANGED dvars
    /\ UNCHANGED hvars
    /\ UNCHANGED <<pvars, evars, wvars, rvars>>
    /\ UNCHANGED <<mutex, tpc, aborted, exception>>
    /\ UNCHANGED ivars
    /\ UNCHANGED jvars

FlagsInit ==
    /\ ThreadInit
    /\ NoHandler
    /\ code = <<>> /\ insn = <<>> /\ dstart = 1 /\ dres = <<>>
    /\ eflags \in {0, 2261}
    /\ \E d \in {1, 2, 4, 8, 16}, c \in BOOLEAN :
         \E x, y \in (IF d = 16 THEN {u64(0)} ELSE CmpValues(d)) :
            cmpcall = [d_size |-> d, x |-> x, y |-> y, carry |-> c,
                       state |-> "called"]

FlagsNext == set_x64_cmp_flags_call

FlagsSpec == FlagsInit /\ [][FlagsNext]_vars

\* ======================================================================
\* The saved context (x64_context): regs[n] is the general register n
\* (*X64REG(context, n), RAX = 0 .. R15 = 15), eflags is EFLAGS(context)
\* and the position dstart in code is RIP(context).
\* ======================================================================
RAX == 0
RCX == 1
RSI == 6
RDI == 7

\* the little-endian immediate of n bytes at the end of the instruction,
\* sign-extended to 64 bits: *(s8*)(RIP + i_size - 1) and the like
RECURSIVE imm_bytes(_, _, _)
imm_bytes(cd, pos, n) ==
    IF n = 0 THEN 0 ELSE cd[pos] + 256 * imm_bytes(cd, pos + 1, n - 1)
imm_value(cd, rip, i_size, n) ==
    LET lo == imm_bytes(cd, rip + i_size - n, IF n = 4 THEN 2 ELSE n)
        hi == IF n = 4 THEN imm_bytes(cd, rip + i_size - 2, 2) ELSE 0
        neg == IF n = 1 THEN lo >= 128
               ELSE IF n = 2 THEN lo >= 32768 ELSE hi >= 32768
    IN IF n = 4
         THEN <<lo, hi, IF neg THEN Limb - 1 ELSE 0,
                        IF neg THEN Limb - 1 ELSE 0>>
         ELSE IF neg
           THEN <<lo + (IF n = 1 THEN Limb - 256 ELSE 0), Limb - 1, Limb - 1,
                  Limb - 1>>
           ELSE <<lo, 0, 0, 0>>

\* the result of get_x64_reg_value: return value and out_value
Value(ok, v) == [ok |-> ok, value |-> v]

\* lines 839-861: the condition code pseudo-registers
cond_value(f, reg) ==
    LET cf == bit(f, 0)
        zf == bit(f, 6)
        sf == bit(f, 7)
        of == bit(f, 11)
        pf == bit(f, 2)
        l  == sf # of
        c  == (reg - X64_BIT_O) \div 2
        v  == CASE c = 0 -> of [] c = 1 -> cf [] c = 2 -> zf
                [] c = 3 -> cf \/ zf [] c = 4 -> sf [] c = 5 -> pf
                [] c = 6 -> l  [] OTHER -> l \/ zf
    IN IF v # (reg % 2 = 1) THEN u64(1) ELSE u64(0)

\* lines 776-865
get_x64_reg_value(c, reg, d_size, i_size) ==
    CASE reg - X64R_RAX \in 0..15 ->
            IF d_size \in {1, 2, 4, 8}
              THEN Value(TRUE, u64_trunc(c.regs[reg - X64R_RAX], d_size))
              ELSE Value(FALSE, u64(0))
      [] reg - X64R_AL \in 0..3 /\ d_size = 1 ->
            Value(TRUE, u64_trunc(c.regs[reg - X64R_AL], 1))
      [] reg - X64R_AH \in 0..3 /\ d_size = 1 ->
            Value(TRUE, u64(c.regs[reg - X64R_AH][1] \div 256))
      [] reg = X64_IMM8 /\ d_size \in {1, 2, 4, 8} ->
            Value(TRUE, u64_trunc(imm_value(c.code, c.rip, i_size, 1), d_size))
      [] reg = X64_IMM16 /\ d_size = 2 ->
            Value(TRUE, u64_trunc(imm_value(c.code, c.rip, i_size, 2), 2))
      [] reg = X64_IMM32 /\ d_size \in {4, 8} ->
            Value(TRUE, u64_trunc(imm_value(c.code, c.rip, i_size, 4), d_size))
      [] reg = X64R_ECX /\ ~(d_size = 1) ->
            Value(TRUE, u64_trunc(c.regs[RCX], 4))
      [] reg \in X64_BIT_O..(X64_BIT_O + 15) ->
            Value(TRUE, cond_value(c.eflags, reg))
      [] OTHER -> Value(FALSE, u64(0))

\* the result of put_x64_reg_value: return value and the registers
Regs(ok, rs) == [ok |-> ok, regs |-> rs]

\* lines 867-884; the masks 0xffffff00 and 0xffff0000 are 32-bit constants
put_x64_reg_value(rs, reg, d_size, value) ==
    IF reg - X64R_RAX \in 0..15 /\ d_size \in {1, 2, 4, 8}
      THEN LET old == rs[reg - X64R_RAX]
               new == CASE d_size = 1 ->
                            u64_or(u64_and(value, u64_ones(8)),
                                   u64_and(old, <<Limb - 256, Limb - 1, 0, 0>>))
                        [] d_size = 2 ->
                            u64_or(u64_and(value, u64_ones(16)),
                                   u64_and(old, <<0, Limb - 1, 0, 0>>))
                        [] d_size = 4 -> u64_and(value, u64_ones(32))
                        [] OTHER -> value
           IN Regs(TRUE, [rs EXCEPT ![reg - X64R_RAX] = new])
      ELSE Regs(FALSE, rs)

\* x * y modulo 2^64 for a small x (d_size): repeated addition
RECURSIVE u64_times(_, _)
u64_times(n, y) == IF n = 0 THEN u64(0) ELSE u64_add(y, u64_times(n - 1, y))

\* size_t(-1)
MinusOne == u64_ones(64)

\* (mutant) a compare-exchange always has the access size d_size
get_x64_access_size_no_cmpxchg(c, op, reg, d_size, i_size) ==
    LET counter == get_x64_reg_value(c, reg, 8, i_size)
    IN
    CASE op \in {"X64OP_MOVS", "X64OP_STOS"} /\ bit(c.eflags, 10) -> u64(0)
      [] op \in {"X64OP_MOVS", "X64OP_STOS"} /\ reg # X64_NOT_SET ->
            IF ~counter.ok THEN MinusOne
            ELSE u64_times(d_size, counter.value)
      [] OTHER -> u64(d_size)
\* lines 962-1001
get_x64_access_size(c, op, reg, d_size, i_size) ==
    LET counter == get_x64_reg_value(c, reg, 8, i_size)
        cmp     == get_x64_reg_value(c, reg, d_size, i_size)
        exch    == get_x64_reg_value(c, X64R_RAX, d_size, i_size)
    IN
    CASE op \in {"X64OP_MOVS", "X64OP_STOS"} /\ bit(c.eflags, 10) -> u64(0)
      [] op \in {"X64OP_MOVS", "X64OP_STOS"} /\ reg # X64_NOT_SET ->
            IF ~counter.ok THEN MinusOne
            ELSE u64_times(d_size, counter.value)
      [] op = "X64OP_CMPXCHG" ->
            IF ~cmp.ok \/ ~exch.ok THEN MinusOne
            ELSE IF cmp.value = exch.value THEN u64(0) ELSE u64(d_size)
      [] OTHER -> u64(d_size)


\* ======================================================================
\* handle_access_violation, lines 1008-1589
\* The machine m a fault is handled on: the saved context (regs, eflags,
\* rip into code), cell, the d_size bytes of emulated memory at the fault
\* address (*vm::base_priv(addr)), and writes, the writes made to emulated
\* memory so far: where, how many bytes, and whether from inside the
\* callback given to vm::reservation_query.
\* ======================================================================
\* se_storage<u16/u32/u64>::swap
swap16(l) == (l % 256) * 256 + l \div 256
se_swap(v, d_size) ==
    CASE d_size = 2 -> <<swap16(v[1]), 0, 0, 0>>
      [] d_size = 4 -> <<swap16(v[2]), swap16(v[1]), 0, 0>>
      [] OTHER -> <<swap16(v[4]), swap16(v[3]), swap16(v[2]), swap16(v[1])>>

\* the host address of the emulated address 0 (vm::g_base_addr), the low
\* 64 bits of every vector register and the data at the source of a block
\* move
BaseAddr == <<0, 0, 1, 0>>
XmmValue == <<4660, 22136, 39612, 57072>>
SrcValue == <<8721, 17459, 26197, 34935>>

\* vm::base(addr): the host pointer of an emulated address
vm_base(a) == u64_add(BaseAddr, a)

\* a store of d_size bytes at the emulated address a
Write(a, d_size, inq) == [at |-> a, size |-> d_size, inq |-> inq]

\* the result of a step of the handler: its return value and the machine
Ret(ok, m) == [ret |-> ok, m |-> m]

\* a write of value v (d_size bytes) at the fault address
mem_write(m, a, d_size, v, inq) ==
    [m EXCEPT !.cell = u64_trunc(v, IF d_size > 8 THEN 8 ELSE d_size),
              !.writes = Append(@, Write(a, d_size, inq))]

\* lines 1233-1264 and 1294-1320: the loop of the block operations from
\* the address a_addr; movs says whether RSI moves as well. The result is
\* FALSE with the machine when the loop returned false.
RECURSIVE block_loop(_, _, _, _, _, _, _, _)
block_loop(m, a, a_addr, d_size, reg, value, movs, inq) ==
    IF a_addr[2] # a[2] \/ a_addr[1] \div 4096 # a[1] \div 4096
      THEN Ret(TRUE, m)
    ELSE
    LET w == [m EXCEPT
                !.cell = IF a_addr = a THEN u64_trunc(value, d_size) ELSE @,
                !.writes = Append(@, Write(a_addr, d_size, inq))]
    IN IF bit(m.eflags, 10) THEN Ret(FALSE, w)
       ELSE
       LET adv == [w EXCEPT
                     !.regs[RDI] = u64_add(@, u64(d_size)),
                     !.regs[RSI] = IF movs THEN u64_add(@, u64(d_size))
                                           ELSE @]
           nxt == u64_trunc(u64_add(a_addr, u64(d_size)), 4)
           dec == [adv EXCEPT !.regs[RCX] = u64_sub(@, u64(1))]
       IN IF reg = X64_NOT_SET THEN Ret(TRUE, adv)
          ELSE IF dec.regs[RCX] = u64(0) THEN Ret(TRUE, dec)
          ELSE block_loop(dec, a, nxt, d_size, reg, value, movs, inq)

\* (mutant) the instruction is skipped although the counter is not zero
block_op_always_skips(m, a, op, reg, d_size, i_size, inq) ==
    LET c     == [regs |-> m.regs, eflags |-> m.eflags, rip |-> m.rip,
                  code |-> m.code]
        value == IF op = "X64OP_MOVS" THEN Value(TRUE, SrcValue)
                 ELSE get_x64_reg_value(c, X64R_RAX, d_size, i_size)
    IN
    IF d_size > 8 THEN Ret(FALSE, m)
    ELSE IF vm_base(a) # m.regs[RDI] THEN Ret(FALSE, m)
    ELSE IF ~value.ok THEN Ret(FALSE, m)
    ELSE
    LET r == block_loop(m, a, a, d_size, reg, value.value,
                        op = "X64OP_MOVS", inq)
    IN IF ~r.ret THEN r
       ELSE Ret(TRUE, [r.m EXCEPT !.rip = @ + i_size])
\* lines 1219-1329: X64OP_MOVS and X64OP_STOS
block_op(m, a, op, reg, d_size, i_size, inq) ==
    LET c     == [regs |-> m.regs, eflags |-> m.eflags, rip |-> m.rip,
                  code |-> m.code]
        value == IF op = "X64OP_MOVS" THEN Value(TRUE, SrcValue)
                 ELSE get_x64_reg_value(c, X64R_RAX, d_size, i_size)
    IN
    IF d_size > 8 THEN Ret(FALSE, m)
    ELSE IF vm_base(a) # m.regs[RDI] THEN Ret(FALSE, m)
    ELSE IF ~value.ok THEN Ret(FALSE, m)
    ELSE
    LET r == block_loop(m, a, a, d_size, reg, value.value,
                        op = "X64OP_MOVS", inq)
    IN IF ~r.ret THEN r
       ELSE IF reg = X64_NOT_SET \/ r.m.regs[RCX] = u64(0)
         THEN Ret(TRUE, [r.m EXCEPT !.rip = @ + i_size])
         ELSE Ret(TRUE, r.m)

\* lines 1386-1389 and the like: the new contents of the cell after the
\* read-modify-write of op with the operand v and the carry flag cf
alu(op, old, v, cf, d_size) ==
    LET vc == u64_add(v, u64(cf)) IN
    u64_trunc(
        CASE op = "X64OP_AND" -> u64_and(old, v)
          [] op = "X64OP_OR"  -> u64_or(old, v)
          [] op = "X64OP_XOR" -> u64_xor(old, v)
          [] op = "X64OP_INC" -> u64_add(old, u64(1))
          [] op = "X64OP_DEC" -> u64_sub(old, u64(1))
          [] op = "X64OP_ADD" -> u64_add(old, u64_trunc(v, d_size))
          [] op = "X64OP_ADC" -> u64_add(old, u64_trunc(vc, d_size))
          [] op = "X64OP_SUB" -> u64_sub(old, u64_trunc(v, d_size))
          [] OTHER            -> u64_sub(old, u64_trunc(vc, d_size)),
        d_size)

\* (mutant) the flags of a bitwise operation compare the result with the
\* operand
alu_flags_y_operand(op, v, cf) ==
    CASE op \in {"X64OP_AND", "X64OP_OR", "X64OP_XOR"} -> v
      [] op = "X64OP_INC" -> u64(1)
      [] op = "X64OP_DEC" -> MinusOne
      [] op = "X64OP_ADD" -> v
      [] op = "X64OP_ADC" -> u64_add(v, u64(cf))
      [] op = "X64OP_SUB" -> u64_sub(u64(0), v)
      [] OTHER            -> u64_sub(u64(0), u64_add(v, u64(cf)))
\* lines 1393-1569: the second argument of set_x64_cmp_flags after op
alu_flags_y(op, v, cf) ==
    CASE op \in {"X64OP_AND", "X64OP_OR", "X64OP_XOR"} -> u64(0)
      [] op = "X64OP_INC" -> u64(1)
      [] op = "X64OP_DEC" -> MinusOne
      [] op = "X64OP_ADD" -> v
      [] op = "X64OP_ADC" -> u64_add(v, u64(cf))
      [] op = "X64OP_SUB" -> u64_sub(u64(0), v)
      [] OTHER            -> u64_sub(u64(0), u64_add(v, u64(cf)))

AluOps == {"X64OP_AND", "X64OP_OR", "X64OP_XOR", "X64OP_INC", "X64OP_DEC",
           "X64OP_ADD", "X64OP_ADC", "X64OP_SUB", "X64OP_SBB"}

\* lines 1147-1585: the callback given to vm::reservation_query, for the
\* fault address a and the decoded instruction d
callback(m, a, d, inq) ==
    LET op     == d.op
        reg    == d.reg
        d_size == d.size
        i_size == d.length
        c      == [regs |-> m.regs, eflags |-> m.eflags, rip |-> m.rip,
                   code |-> m.code]
        skip(n) == [n EXCEPT !.rip = @ + i_size]
        rv     == get_x64_reg_value(c, reg, d_size, i_size)
        cmpv   == get_x64_reg_value(c, X64R_RAX, d_size, i_size)
        cf     == IF bit(m.eflags, 0) THEN 1 ELSE 0
    IN
    IF d_size = 0 \/ i_size = 0 THEN Ret(FALSE, m)
    ELSE
    CASE op = "X64OP_STORE" /\ d_size = 16 ->
            IF reg - X64R_XMM0 \notin 0..15 THEN Ret(FALSE, m)
            ELSE Ret(TRUE, skip(mem_write(m, a, 16, XmmValue, inq)))
      [] op \in {"X64OP_STORE", "X64OP_STORE_BE"}
            /\ ~(op = "X64OP_STORE" /\ d_size = 16) ->
            IF ~rv.ok THEN Ret(FALSE, m)
            ELSE IF op = "X64OP_STORE_BE" /\ d_size \notin {2, 4, 8}
              THEN Ret(FALSE, m)
            ELSE Ret(TRUE, skip(mem_write(m, a, d_size,
                        IF op = "X64OP_STORE_BE"
                          THEN se_swap(rv.value, d_size) ELSE rv.value,
                        inq)))
      [] op \in {"X64OP_MOVS", "X64OP_STOS"} ->
            block_op(m, a, op, reg, d_size, i_size, inq)
      [] op = "X64OP_XCHG" ->
            IF ~rv.ok \/ d_size \notin {1, 2, 4, 8} THEN Ret(FALSE, m)
            ELSE LET w == mem_write(m, a, d_size, rv.value, inq)
                     p == put_x64_reg_value(w.regs, reg, d_size, m.cell)
                 IN IF ~p.ok THEN Ret(FALSE, w)
                    ELSE Ret(TRUE, skip([w EXCEPT !.regs = p.regs]))
      [] op = "X64OP_CMPXCHG" ->
            IF ~rv.ok \/ ~cmpv.ok \/ d_size \notin {1, 2, 4, 8}
              THEN Ret(FALSE, m)
            ELSE LET old == m.cell
                     w == IF old = cmpv.value
                            THEN mem_write(m, a, d_size, rv.value, inq)
                            ELSE m
                     p == put_x64_reg_value(w.regs, X64R_RAX, d_size, old)
                     f == set_x64_cmp_flags(w.eflags, d_size, cmpv.value,
                                            old, TRUE)
                 IN IF ~p.ok \/ ~f.ok THEN Ret(FALSE, w)
                    ELSE Ret(TRUE, skip([w EXCEPT !.regs = p.regs,
                                                  !.eflags = f.eflags]))
      [] op \in AluOps ->
            IF op \notin {"X64OP_INC", "X64OP_DEC"} /\ ~rv.ok
              THEN Ret(FALSE, m)
            ELSE IF d_size \notin {1, 2, 4, 8} THEN Ret(FALSE, m)
            ELSE LET v == IF op \in {"X64OP_INC", "X64OP_DEC"} THEN u64(0)
                          ELSE rv.value
                     new == alu(op, m.cell, v, cf, d_size)
                     w == mem_write(m, a, d_size, new, inq)
                     f == set_x64_cmp_flags(w.eflags, d_size, new,
                              alu_flags_y(op, v, cf),
                              op \notin {"X64OP_INC", "X64OP_DEC"})
                 IN Ret(TRUE, skip([w EXCEPT !.eflags = f.eflags]))
      [] OTHER -> Ret(FALSE, m)

\* ---------------------------------------------------------------- routing
\* the register windows of the secondary processors (RawSPU): the base
\* address 0xE0000000, 0x100000 bytes per instance, and the offset 0x40000
\* of the problem-state registers inside each
RAW_SPU_BASE_ADDR == <<0, 57344, 0, 0>>
RAW_SPU_OFFSET_BITS == 20
RAW_SPU_PROB_OFFSET == <<0, 4, 0, 0>>
\* 6 * RAW_SPU_OFFSET
RawSpuWindows == <<0, 96, 0, 0>>

\* (mutant) every address of a window is a register
is_raw_spu_mmio_whole_window(a) ==
    u64_less(u64_trunc(u64_sub(a, RAW_SPU_BASE_ADDR), 4), RawSpuWindows)
\* line 1051: the address is a RawSPU MMIO register (u32 arithmetic)
is_raw_spu_mmio(a) ==
    /\ u64_less(u64_trunc(u64_sub(a, RAW_SPU_BASE_ADDR), 4), RawSpuWindows)
    /\ ~u64_less(u64_and(a, u64_ones(RAW_SPU_OFFSET_BITS)),
                 RAW_SPU_PROB_OFFSET)

\* (mutant) only a sum beyond 2^32 is rejected
size_invalid_beyond(size, a) ==
    LET s == u64_add(size, a) IN
    size[3] # 0 \/ size[4] # 0 \/ s[4] # 0 \/ s[3] > 1
        \/ (s[3] = 1 /\ (s[1] # 0 \/ s[2] # 0))
\* lines 1033 and 1043: (size | size + addr) >= 0x100000000
size_invalid(size, a) ==
    LET s == u64_add(size, a) IN
    size[3] # 0 \/ size[4] # 0 \/ s[3] # 0 \/ s[4] # 0

\* the machine made of the state variables, and the state variables of a
\* machine
Machine ==
    [regs |-> regs, eflags |-> eflags, rip |-> dstart, code |-> code,
     cell |-> cell, writes |-> writes]
SetMachine(m) ==
    /\ regs' = m.regs
    /\ eflags' = m.eflags
    /\ dstart' = m.rip
    /\ cell' = m.cell
    /\ writes' = m.writes

\* a call of an external interface
Call(name, value) == [call |-> name, value |-> value]

\* the rest of the state is left alone by the fault handler
FaultFrame ==
    /\ UNCHANGED <<code, insn, dres, cmpcall, addr, is_writing>>
    /\ UNCHANGED <<pvars, evars, wvars, rvars>>
    /\ UNCHANGED <<mutex, tpc, aborted, exception>>
    /\ UNCHANGED ivars
    /\ UNCHANGED jvars

\* lines 1010-1013: the hook of the graphics emulation is asked first
hav_rsx(claimed) ==
    /\ fpc = "fault"
    /\ ext' = Append(ext, Call("rsx", addr))
    /\ fpc' = IF claimed THEN "done" ELSE "decode"
    /\ handled' = IF claimed THEN "true" ELSE handled
    /\ UNCHANGED <<regs, eflags, dstart, cell, writes, flocal>>
    /\ FaultFrame

\* lines 1015-1048: decode, and reject the sizes that leave the 32-bit
\* address space
hav_decode ==
    /\ fpc = "decode"
    /\ LET d == decode_x64_reg_op(code, dstart)
           c == [regs |-> regs, eflags |-> eflags, rip |-> dstart,
                 code |-> code]
           a_size == get_x64_access_size(c, d.op, d.reg, d.size, d.length)
           bad_d == size_invalid(u64(d.size), addr)
           bad_a == size_invalid(a_size, addr)
       IN /\ flocal' = [op |-> d.op, reg |-> d.reg, size |-> d.size,
                        length |-> d.length,
                        a_size |-> IF bad_d THEN NoLocals.a_size ELSE a_size]
          /\ fpc' = IF bad_d \/ bad_a THEN "done" ELSE "route"
          /\ handled' = IF bad_d \/ bad_a THEN "false" ELSE handled
    /\ UNCHANGED <<regs, eflags, dstart, cell, writes, ext>>
    /\ FaultFrame

\* (mutant) a store is made through the privileged view before the
\* reservation mechanism is called
hav_route_store_first ==
    /\ fpc = "route"
    /\ IF is_raw_spu_mmio(addr)
         THEN /\ fpc' = "mmio"
              /\ ext' = Append(ext, Call("idm_get", addr))
              /\ UNCHANGED <<cell, writes>>
         ELSE /\ fpc' = "query"
              /\ ext' = Append(ext, Call("reservation_query", addr))
              /\ IF flocal.op = "X64OP_STORE" /\ flocal.size = 1
                   THEN /\ cell' = u64_trunc(regs[RCX], 1)
                        /\ writes' = Append(writes, Write(addr, 1, FALSE))
                   ELSE UNCHANGED <<cell, writes>>
    /\ UNCHANGED <<regs, eflags, dstart, flocal, handled>>
    /\ FaultFrame
\* lines 1051-1053 and 1146: the address selects the register interface of
\* a RawSPU thread or the reservation mechanism
hav_route ==
    /\ fpc = "route"
    /\ IF is_raw_spu_mmio(addr)
         THEN /\ fpc' = "mmio"
              /\ ext' = Append(ext, Call("idm_get", addr))
         ELSE /\ fpc' = "query"
              /\ ext' = Append(ext, Call("reservation_query", addr))
    /\ UNCHANGED <<regs, eflags, dstart, cell, writes, flocal, handled>>
    /\ FaultFrame

\* the values a register of a RawSPU thread is read as
RegValues == {<<513, 1027, 0, 0>>, <<0, 256, 0, 0>>, <<65535, 65535, 0, 0>>}

\* (mutant) the value read is never byte-swapped
mmio_loaded_as_read(op, value) == value
\* lines 1080-1083: the value read from a register, as it is used
mmio_loaded(op, value) ==
    IF op = "X64OP_LOAD_BE" THEN value ELSE se_swap(value, 4)

\* line 1123: the value given to write_reg for the register value v
mmio_stored(op, v) ==
    IF op = "X64OP_STORE" THEN se_swap(u64_trunc(v, 4), 4)
    ELSE u64_trunc(v, 4)

\* lines 1055-1142: the access to a register of a RawSPU thread; thread
\* says whether the thread exists, ok and value are what read_reg or
\* write_reg answers. The call of read_reg is logged with the value it
\* returned, the call of write_reg with the value it was given.
hav_mmio(thread, ok, value) ==
    /\ fpc = "mmio"
    /\ fpc' = "done"
    /\ LET op     == flocal.op
           reg    == flocal.reg
           d_size == flocal.size
           i_size == flocal.length
           c      == [regs |-> regs, eflags |-> eflags, rip |-> dstart,
                      code |-> code]
           rv     == get_x64_reg_value(c, reg, d_size, i_size)
           loaded == mmio_loaded(op, value)
           fl     == IF op = "X64OP_LOAD_CMP"
                       THEN set_x64_cmp_flags(eflags, d_size, loaded,
                                              rv.value, TRUE)
                       ELSE set_x64_cmp_flags(eflags, d_size,
                                u64_and(loaded, rv.value), u64(0), TRUE)
           put    == put_x64_reg_value(regs, reg, d_size, loaded)
           stored == mmio_stored(op, rv.value)
           no     == /\ handled' = "false"
                     /\ UNCHANGED <<regs, eflags, dstart>>
           yes    == /\ handled' = "true"
                     /\ dstart' = dstart + i_size
       IN
       IF ~thread THEN no /\ UNCHANGED ext
       ELSE IF flocal.a_size # u64(4) \/ d_size = 0 \/ i_size = 0
         THEN no /\ UNCHANGED ext
       ELSE
       CASE op \in {"X64OP_LOAD", "X64OP_LOAD_BE", "X64OP_LOAD_CMP",
                    "X64OP_LOAD_TEST"} ->
              IF is_writing THEN no /\ UNCHANGED ext
              ELSE /\ ext' = Append(ext, Call("read_reg", value))
                   /\ IF ~ok THEN no
                      ELSE IF op \in {"X64OP_LOAD_CMP", "X64OP_LOAD_TEST"}
                        THEN IF ~rv.ok \/ ~fl.ok THEN no
                             ELSE /\ yes
                                  /\ eflags' = fl.eflags
                                  /\ UNCHANGED regs
                      ELSE IF ~put.ok THEN no
                        ELSE /\ yes
                             /\ regs' = put.regs
                             /\ UNCHANGED eflags
         [] op \in {"X64OP_STORE", "X64OP_STORE_BE"} ->
              IF ~is_writing \/ ~rv.ok THEN no /\ UNCHANGED ext
              ELSE /\ ext' = Append(ext, Call("write_reg", stored))
                   /\ IF ~ok THEN no
                      ELSE yes /\ UNCHANGED <<regs, eflags>>
         [] OTHER -> no /\ UNCHANGED ext
    /\ UNCHANGED <<cell, writes, flocal>>
    /\ FaultFrame

\* vm::reservation_query(addr, size, is_writing, callback): runs the
\* callback under the reservation and returns its result
reservation_query(m, a, d) == callback(m, a, d, TRUE)

\* line 1146: the fault is handed to the reservation mechanism
hav_query ==
    /\ fpc = "query"
    /\ fpc' = "done"
    /\ LET r == reservation_query(Machine, addr, flocal)
       IN /\ SetMachine(r.m)
          /\ handled' = IF r.ret THEN "true" ELSE "false"
    /\ UNCHANGED <<flocal, ext>>
    /\ FaultFrame

\* ----------------------------------------------------------------------
\* The faults the handler is run on: the faulting instruction, the fault
\* address, the kind of access and the saved registers.
\* ----------------------------------------------------------------------
MaxCount == 3

FaultCodes ==
    { <<137, 8>>,            \* mov [rax], ecx
      <<72, 137, 8>>,        \* mov [rax], rcx
      <<102, 137, 8>>,       \* mov [rax], cx
      <<136, 8>>,            \* mov [rax], cl
      <<136, 40>>,           \* mov [rax], ch
      <<139, 8>>,            \* mov ecx, [rax]
      <<15, 56, 241, 8>>,    \* movbe [rax], ecx
      <<15, 56, 240, 8>>,    \* movbe ecx, [rax]
      <<170>>,               \* stosb
      <<243, 170>>,          \* rep stosb
      <<243, 72, 170>>,      \* rep stosb with REX.W
      <<164>>,               \* movsb
      <<243, 164>>,          \* rep movsb
      <<243, 171>>,          \* rep stosd
      <<15, 176, 8>>,        \* cmpxchg [rax], cl
      <<15, 177, 8>>,        \* cmpxchg [rax], ecx
      <<72, 15, 177, 8>>,    \* cmpxchg [rax], rcx
      <<135, 8>>,            \* xchg [rax], ecx
      <<134, 40>>,           \* xchg [rax], ch
      <<33, 8>>,             \* and [rax], ecx
      <<131, 0, 1>>,         \* add dword [rax], 1
      <<131, 8, 1>>,         \* or dword [rax], 1
      <<131, 16, 1>>,        \* adc dword [rax], 1
      <<131, 24, 1>>,        \* sbb dword [rax], 1
      <<131, 40, 255>>,      \* sub dword [rax], -1
      <<131, 48, 1>>,        \* xor dword [rax], 1
      <<131, 56, 1>>,        \* cmp dword [rax], 1
      <<199, 0, 120, 86, 52, 18>>,  \* mov dword [rax], 0x12345678
      <<198, 0, 255>>,       \* mov byte [rax], 0xff
      <<15, 41, 0>>,         \* movaps [rax], xmm0
      <<15, 148, 0>>,        \* sete [rax]
      <<247, 0, 1, 0, 0, 0>>,  \* test dword [rax], 1
      <<246, 8, 17>>,        \* F6 /1
      <<1, 8>> }             \* add [rax], ecx

\* fault addresses: in plain memory eight and two bytes before the end of
\* a page, at the end of the address space, and below, inside and above
\* the RawSPU register windows
FaultAddrs ==
    { <<4088, 1, 0, 0>>, <<4094, 1, 0, 0>>,
      <<65532, 65535, 0, 0>>, <<65535, 65535, 0, 0>>,
      <<65532, 57343, 0, 0>>, <<4092, 57344, 0, 0>>, <<65532, 57347, 0, 0>>,
      <<0, 57348, 0, 0>>, <<0, 57428, 0, 0>>, <<4092, 57444, 0, 0>> }

\* the counter register: 1 .. MaxCount, and 2^32
Counts == {u64(n) : n \in 1..MaxCount} \cup {<<0, 0, 1, 0>>}

FaultInit ==
    /\ ThreadInit
    /\ insn = <<>>
    /\ dres = <<>>
    /\ cmpcall = NoCmp
    /\ dstart = 1
    /\ \E fc \in FaultCodes : code = fc \o Follower
    /\ addr \in FaultAddrs
    /\ is_writing \in BOOLEAN
    /\ eflags \in {0, 2049, 1024}
    /\ \E rax \in {u64(1), <<32785, 4660, 0, 0>>}, rcx \in Counts,
          rdi \in {vm_base(addr), u64(0)} :
         regs = [r \in 0..15 |->
                    CASE r = RAX -> rax [] r = RCX -> rcx
                      [] r = RDI -> rdi [] r = RSI -> <<0, 0, 2, 0>>
                      [] OTHER -> u64(0)]
    /\ cell \in {u64(1), u64(128)}
    /\ writes = <<>>
    /\ fpc = "fault"
    /\ flocal = NoLocals
    /\ ext = <<>>
    /\ handled = "none"
    /\ putcall = NoPut
    /\ NoEntry

FaultNext ==
    \/ \E claimed \in BOOLEAN : hav_rsx(claimed)
    \/ hav_decode
    \/ hav_route
    \/ \E thread \in BOOLEAN, ok \in BOOLEAN, value \in RegValues :
         hav_mmio(thread, ok, value)
    \/ hav_query

FaultSpec == FaultInit /\ [][FaultNext]_vars

\* ======================================================================
\* put_x64_reg_value as a function of its arguments
\* ======================================================================

\* the call of put_x64_reg_value (867-884) on the saved context
put_x64_reg_value_call ==
    /\ putcall.state = "called"
    /\ LET p == put_x64_reg_value(regs, putcall.reg, putcall.d_size,
                                  putcall.value)
       IN /\ regs' = p.regs
          /\ putcall' = [putcall EXCEPT
                           !.state = IF p.ok THEN "true" ELSE "false"]
    /\ UNCHANGED <<addr, is_writing, cell, writes, fpc, flocal, ext, handled>>
    /\ UNCHANGED <<dvars, fvars, evars, wvars, rvars>>
    /\ UNCHANGED <<mutex, tpc, aborted, exception>>
    /\ UNCHANGED ivars
    /\ UNCHANGED jvars

\* register values and values written: zero, all ones, and values whose
\* bytes all differ
PutValues ==
    { <<0, 0, 0, 0>>, <<Limb - 1, Limb - 1, Limb - 1, Limb - 1>>,
      <<4660, 22136, 39612, 57072>>, <<513, 1027, 1, 0>> }

\* the operands: general registers, legacy byte registers, no operand,
\* the immediates and condition codes
PutOperands ==
    { X64R_RAX, X64R_RCX, 15, X64R_AL, X64R_AH, X64_NOT_SET, X64_IMM8,
      X64_IMM16, X64_IMM32, X64_BIT_O, X64_BIT_O + 4, X64_BIT_O + 15 }

PutInit ==
    /\ ThreadInit
    /\ code = <<>> /\ insn = <<>> /\ dstart = 1 /\ dres = <<>>
    /\ eflags = 0
    /\ cmpcall = NoCmp
    /\ addr = <<0, 0, 0, 0>>
    /\ is_writing = FALSE
    /\ cell = <<0, 0, 0, 0>>
    /\ writes = <<>>
    /\ fpc = "idle"
    /\ flocal = NoLocals
    /\ ext = <<>>
    /\ handled = "none"
    /\ NoEntry
    /\ \E old \in PutValues :
         regs = [r \in 0..15 |-> IF r \in {RAX, RCX, 15} THEN old
                                 ELSE <<r, 0, r, 0>>]
    /\ \E reg \in PutOperands, d \in {1, 2, 4, 8, 16}, v \in PutValues :
         putcall = [reg |-> reg, d_size |-> d, value |-> v,
                    state |-> "called"]

PutNext == put_x64_reg_value_call

PutSpec == PutInit /\ [][PutNext]_vars

\* ======================================================================
\* The fault entry points: exception_handler and exception_filter
\* (Windows), signal_handler (POSIX), prepare_throw_access_violation and
\* throw_access_violation. RIP(context) is the position dstart; the
\* thread's position around its fault is epc.
\* ======================================================================
RDX == 2
RSP == 4

\* lines 708-709 and 766-767: the registers of the first two arguments
ARG1 == IF platform = "win32" THEN RCX ELSE RDI
ARG2 == IF platform = "win32" THEN RDX ELSE RSI

\* the number of faults delivered to the thread
MaxFaults == 2

\* std::addressof(throw_access_violation): the position after the
\* instruction stream and its follower, where no instruction is decoded
Trampoline == Len(code) - 3

\* the address of the string literal "writing" or "reading"
cause(w) == IF w THEN <<16, 0, 64, 0>> ELSE <<24, 0, 64, 0>>

\* lines 1592-1611: on Windows the unwind data of the function at rip
\* decides (fault.leaf is the interrupted function being a leaf, which
\* RtlLookupFunctionEntry shows); elsewhere no function is taken as a leaf
is_leaf_function(rip) == IF platform = "win32" THEN fault.leaf ELSE FALSE

\* lines 1624-1634: the context is changed into a call of
\* throw_access_violation(cause, address)
prepare_throw_access_violation(cs, address) ==
    /\ s_tls_ret_addr' = dstart
    /\ s_tls_ret_pos' = IF is_leaf_function(dstart) THEN u64(0)
                        ELSE u64_sub(regs[RSP], u64(8))
    /\ regs' = [regs EXCEPT ![ARG1] = cs, ![ARG2] = address,
                            ![RSP] = IF is_leaf_function(dstart) THEN @
                                     ELSE u64_sub(@, u64(8))]
    /\ dstart' = Trampoline

\* addr64 < 0x100000000ull
InWindow64(a) == a[3] = 0 /\ a[4] = 0

\* what the entry points leave alone
EntryFrame ==
    /\ UNCHANGED <<code, insn, dres, eflags, cmpcall, cell, writes>>
    /\ UNCHANGED <<pvars, platform, rcx0, wvars, rvars>>
    /\ UNCHANGED <<mutex, tpc, aborted, exception>>
    /\ UNCHANGED ivars
    /\ UNCHANGED jvars

\* handle_access_violation is called, is not called, and has returned
CallHandler ==
    /\ fpc' = "fault"
    /\ handled' = "none"
    /\ flocal' = NoLocals
    /\ addr' = <<fault.addr64[1], fault.addr64[2], 0, 0>>
    /\ is_writing' = fault.is_writing
NoCallHandler == UNCHANGED <<fpc, handled, flocal, addr, is_writing>>
HandlerReturned == fpc = "done" /\ handled \in {"true", "false"}
LeaveHandler ==
    /\ fpc' = "idle"
    /\ UNCHANGED <<handled, flocal, addr, is_writing>>

\* the context is not rewritten
NoRewrite == UNCHANGED <<regs, dstart, s_tls_ret_pos, s_tls_ret_addr>>

\* the fault addresses relative to vm::base(0): plain memory, a register
\* of a RawSPU thread, and two outside the 32-bit window
EntryAddrs ==
    { <<4088, 1, 0, 0>>, <<0, 57348, 0, 0>>, <<4088, 1, 1, 0>>,
      <<0, 0, Limb - 1, Limb - 1>> }

\* the thread faults, inside a leaf function or not: the system delivers
\* the exception record or the signal information to the entry point
raise_fault(c, a, w, leaf) ==
    /\ epc \in {"run", "trampoline"}
    /\ Len(outcomes) < MaxFaults
    /\ platform = "posix" => c = "access_violation"
    /\ fault' = [code |-> c, addr64 |-> a, is_writing |-> w, leaf |-> leaf,
                 at |-> epc]
    /\ epc' = "entry"
    /\ UNCHANGED <<g_tls_fault_count, stack, outcomes, ext>>
    /\ NoRewrite
    /\ NoCallHandler
    /\ EntryFrame

\* lines 1640-1651: the vectored handler counts a fault inside the window
\* and calls handle_access_violation when the thread has a thread_ctrl
exception_handler(thread) ==
    /\ platform = "win32"
    /\ epc = "entry"
    /\ IF fault.code = "access_violation" /\ InWindow64(fault.addr64)
         THEN /\ g_tls_fault_count' =
                   [g_tls_fault_count EXCEPT !.count = @ + 1]
              /\ IF thread
                   THEN epc' = "handler" /\ CallHandler
                   ELSE epc' = "filter" /\ NoCallHandler
         ELSE /\ epc' = "filter"
              /\ NoCallHandler
              /\ UNCHANGED g_tls_fault_count
    /\ UNCHANGED <<fault, stack, outcomes, ext>>
    /\ NoRewrite
    /\ EntryFrame

\* lines 1649-1655: EXCEPTION_CONTINUE_EXECUTION when the fault was
\* handled, EXCEPTION_CONTINUE_SEARCH otherwise: the unhandled exception
\* filter is next
exception_handler_return ==
    /\ platform = "win32"
    /\ epc = "handler"
    /\ HandlerReturned
    /\ IF handled = "true"
         THEN /\ epc' = fault.at
              /\ outcomes' = Append(outcomes, "handled")
         ELSE /\ epc' = "filter"
              /\ UNCHANGED outcomes
    /\ LeaveHandler
    /\ UNCHANGED <<fault, g_tls_fault_count, stack, ext>>
    /\ NoRewrite
    /\ EntryFrame

\* lines 1658-1752: an access violation inside the window is turned into
\* a call of throw_access_violation once, bit 63 of the fault counter
\* being the mark; every other exception is reported as fatal
exception_filter ==
    /\ platform = "win32"
    /\ epc = "filter"
    /\ IF /\ fault.code = "access_violation"
          /\ ~g_tls_fault_count.bit63
          /\ InWindow64(fault.addr64)
         THEN /\ g_tls_fault_count' =
                   [g_tls_fault_count EXCEPT !.bit63 = TRUE]
              /\ prepare_throw_access_violation(
                     cause(fault.is_writing),
                     <<fault.addr64[1], fault.addr64[2], 0, 0>>)
              /\ epc' = "trampoline"
              /\ outcomes' = Append(outcomes, "redirected")
              /\ UNCHANGED ext
         ELSE /\ ext' = Append(ext, Call("report_fatal_error", fault.addr64))
              /\ epc' = "fatal"
              /\ outcomes' = Append(outcomes, "fatal")
              /\ UNCHANGED g_tls_fault_count
              /\ NoRewrite
    /\ UNCHANGED <<fault, stack>>
    /\ NoCallHandler
    /\ EntryFrame

\* lines 1773-1807: SIGSEGV inside the window is counted and given to
\* handle_access_violation when the thread has a thread_ctrl, and turned
\* into a call of throw_access_violation when it has none; outside the
\* window it is fatal
signal_handler(thread) ==
    /\ platform = "posix"
    /\ epc = "entry"
    /\ IF InWindow64(fault.addr64)
         THEN /\ g_tls_fault_count' =
                   [g_tls_fault_count EXCEPT !.count = @ + 1]
              /\ UNCHANGED ext
              /\ IF thread
                   THEN /\ epc' = "handler"
                        /\ CallHandler
                        /\ NoRewrite
                        /\ UNCHANGED outcomes
                   ELSE /\ prepare_throw_access_violation(
                               cause(fault.is_writing),
                               <<fault.addr64[1], fault.addr64[2], 0, 0>>)
                        /\ epc' = "trampoline"
                        /\ outcomes' = Append(outcomes, "redirected")
                        /\ NoCallHandler
         ELSE /\ ext' = Append(ext, Call("report_fatal_error", fault.addr64))
              /\ epc' = "fatal"
              /\ outcomes' = Append(outcomes, "fatal")
              /\ UNCHANGED g_tls_fault_count
              /\ NoRewrite
              /\ NoCallHandler
    /\ UNCHANGED <<fault, stack>>
    /\ EntryFrame

\* lines 1796-1800: the fault that handle_access_violation did not handle
\* is turned into a call of throw_access_violation
signal_handler_return ==
    /\ platform = "posix"
    /\ epc = "handler"
    /\ HandlerReturned
    /\ IF handled = "true"
         THEN /\ epc' = fault.at
              /\ outcomes' = Append(outcomes, "handled")
              /\ NoRewrite
         ELSE /\ prepare_throw_access_violation(
                     cause(fault.is_writing),
                     <<fault.addr64[1], fault.addr64[2], 0, 0>>)
              /\ epc' = "trampoline"
              /\ outcomes' = Append(outcomes, "redirected")
    /\ LeaveHandler
    /\ UNCHANGED <<fault, g_tls_fault_count, stack, ext>>
    /\ EntryFrame

\* vm::throw_access_violation(addr, cause): raises the guest-visible error
\* and does not return
vm_throw_access_violation(a, cs) ==
    /\ ext' = Append(ext, Call("vm::throw_access_violation", a))
    /\ epc' = "thrown"

\* lines 1616-1621: the resumed thread runs the trampoline with the
\* arguments left in the context; it writes the return address to the
\* stack slot and raises the error
throw_access_violation ==
    /\ epc = "trampoline"
    /\ stack' = IF s_tls_ret_pos # u64(0)
                  THEN Append(stack, [pos |-> s_tls_ret_pos,
                                      value |-> s_tls_ret_addr])
                  ELSE stack
    /\ vm_throw_access_violation(regs[ARG2], regs[ARG1])
    /\ UNCHANGED <<fault, g_tls_fault_count, outcomes>>
    /\ NoRewrite
    /\ NoCallHandler
    /\ EntryFrame

\* the error is caught at the recovery point and the thread runs the
\* instruction stream again
recover ==
    /\ epc = "thrown"
    /\ Len(outcomes) < MaxFaults
    /\ epc' = "run"
    /\ dstart' = 1
    /\ UNCHANGED <<regs, s_tls_ret_pos, s_tls_ret_addr>>
    /\ UNCHANGED <<fault, g_tls_fault_count, stack, outcomes, ext>>
    /\ NoCallHandler
    /\ EntryFrame

\* the faulting instructions: a store, an exchange with a byte register
\* that put_x64_reg_value rejects, and an instruction the decoder refuses
EntryCodes == { <<137, 8>>, <<134, 40>>, <<246, 8, 17>> }

EntryInit ==
    /\ ThreadInit
    /\ insn = <<>>
    /\ dres = <<>>
    /\ cmpcall = NoCmp
    /\ putcall = NoPut
    /\ dstart = 1
    /\ \E fc \in EntryCodes : code = fc \o Follower
    /\ addr = <<0, 0, 0, 0>>
    /\ is_writing = FALSE
    /\ eflags = 0
    /\ regs = [r \in 0..15 |->
                 CASE r = RAX -> u64(1)
                   [] r = RCX -> <<32785, 4660, 0, 0>>
                   [] r = RSP -> <<65024, 65535, 32767, 0>>
                   [] OTHER -> u64(0)]
    /\ cell = u64(1)
    /\ writes = <<>>
    /\ fpc = "idle"
    /\ flocal = NoLocals
    /\ ext = <<>>
    /\ handled = "none"
    /\ platform \in {"win32", "posix"}
    /\ epc = "run"
    /\ fault = NoException
    /\ g_tls_fault_count = [count |-> 0, bit63 |-> FALSE]
    /\ s_tls_ret_pos = u64(0)
    /\ s_tls_ret_addr = 0
    /\ stack = <<>>
    /\ outcomes = <<>>
    /\ rcx0 = regs[RCX]
    /\ NoWaiting
    /\ NoInterruption

EntryNext ==
    \/ \E c \in {"access_violation", "illegal_instruction"},
          a \in EntryAddrs, w \in BOOLEAN, leaf \in BOOLEAN :
            raise_fault(c, a, w, leaf)
    \/ \E thread \in BOOLEAN : exception_handler(thread)
    \/ exception_handler_return
    \/ exception_filter
    \/ \E thread \in BOOLEAN : signal_handler(thread)
    \/ signal_handler_return
    \/ throw_access_violation
    \/ recover
    \/ (epc = "handler" /\ \E claimed \in BOOLEAN : hav_rsx(claimed))
    \/ (epc = "handler" /\ hav_decode)
    \/ (epc = "handler" /\ hav_route)
    \/ (epc = "handler" /\ \E thread \in BOOLEAN, ok \in BOOLEAN :
                              hav_mmio(thread, ok, <<513, 1027, 0, 0>>))
    \/ (epc = "handler" /\ hav_query)

EntrySpec == EntryInit /\ [][EntryNext]_vars

\* ======================================================================
\* A repeated block operation over its faults: the handler returns with
\* the counter not yet zero and the instruction pointer where it was, the
\* processor runs the instruction again and it faults at the address the
\* destination pointer has reached.
\* ======================================================================

\* the counters a repeated block operation is entered with
BlockCounts == {u64(n) : n \in 0..MaxCount} \cup {<<0, 0, 1, 0>>}

\* the repeated byte store and byte move, with and without REX.W
BlockCodes == { <<243, 170>>, <<243, 72, 170>>, <<243, 164>> }

\* the instruction is run again and faults where RDI points
refault ==
    /\ fpc = "done"
    /\ handled = "true"
    /\ flocal.op \in {"X64OP_MOVS", "X64OP_STOS"}
    /\ dstart = 1
    /\ u64_less(regs[RCX], u64(MaxCount + 1))
    /\ fpc' = "fault"
    /\ handled' = "none"
    /\ flocal' = NoLocals
    /\ addr' = u64_trunc(u64_sub(regs[RDI], BaseAddr), 4)
    /\ UNCHANGED <<regs, eflags, dstart, cell, writes, ext, is_writing>>
    /\ UNCHANGED <<code, insn, dres, cmpcall>>
    /\ UNCHANGED <<pvars, evars, wvars, rvars>>
    /\ UNCHANGED <<mutex, tpc, aborted, exception>>
    /\ UNCHANGED ivars
    /\ UNCHANGED jvars

BlockInit ==
    /\ ThreadInit
    /\ insn = <<>>
    /\ dres = <<>>
    /\ cmpcall = NoCmp
    /\ putcall = NoPut
    /\ dstart = 1
    /\ \E fc \in BlockCodes : code = fc \o Follower
    /\ addr \in {<<4088, 1, 0, 0>>, <<4094, 1, 0, 0>>}
    /\ is_writing \in BOOLEAN
    /\ eflags \in {0, 1024}
    /\ \E rax \in {u64(1), <<32785, 4660, 0, 0>>}, rcx \in BlockCounts,
          rdi \in {vm_base(addr), u64(0)} :
         regs = [r \in 0..15 |->
                    CASE r = RAX -> rax [] r = RCX -> rcx
                      [] r = RDI -> rdi [] r = RSI -> <<0, 0, 2, 0>>
                      [] OTHER -> u64(0)]
    /\ cell \in {u64(1), u64(128)}
    /\ writes = <<>>
    /\ fpc = "fault"
    /\ flocal = NoLocals
    /\ ext = <<>>
    /\ handled = "none"
    /\ platform = "posix"
    /\ epc = "none"
    /\ fault = NoException
    /\ g_tls_fault_count = [count |-> 0, bit63 |-> FALSE]
    /\ s_tls_ret_pos = u64(0)
    /\ s_tls_ret_addr = 0
    /\ stack = <<>>
    /\ outcomes = <<>>
    /\ rcx0 = regs[RCX]
    /\ NoWaiting
    /\ NoInterruption

BlockNext ==
    \/ \E claimed \in BOOLEAN : hav_rsx(claimed)
    \/ hav_decode
    \/ hav_route
    \/ hav_query
    \/ refault

BlockSpec == BlockInit /\ [][BlockNext]_vars

\* ======================================================================
\* thread_ctrl::wait_start and thread_ctrl::wait_wait: the thread waits on
\* internal::cond for a notification, with a time limit.  Time is counted
\* in ticks of the clock; a timeout is a number of ticks.
\* ======================================================================
MaxTime == 3         \* clock ticks explored
Timeouts == 0..(MaxTime - 1)

\* what a wait leaves alone
WaitFrame ==
    /\ UNCHANGED <<dvars, fvars, hvars, pvars, evars, rvars>>
    /\ UNCHANGED <<tpc, aborted, exception>>
    /\ UNCHANGED ivars
    /\ UNCHANGED jvars

\* lines 2085-2088, thread_ctrl::lock() by the thread before it waits
wait_lock ==
    /\ waitcall.state = "none"
    /\ mutex_lock(Target)
    /\ UNCHANGED wvars
    /\ WaitFrame

\* lines 1908-1911
wait_start(timeout) ==
    /\ waitcall.state = "none"
    /\ mutex = Target
    /\ time_limit' = now + timeout
    /\ waitcall' = [NoWait EXCEPT !.timeout = timeout, !.state = "started"]
    /\ UNCHANGED <<now, cond, mutex>>
    /\ WaitFrame

\* lines 1913-1917 and 1923: wait_wait adopts the lock and blocks, in
\* wait_until for a nonzero timeout, in wait otherwise; blocking releases
\* the mutex
wait_wait ==
    /\ waitcall.state = "started"
    /\ mutex = Target
    /\ cond' = IF waitcall.timeout # 0 THEN "wait_until" ELSE "wait"
    /\ mutex' = NoOwner
    /\ waitcall' = [waitcall EXCEPT !.state = "waiting"]
    /\ UNCHANGED <<time_limit, now>>
    /\ WaitFrame

\* the blocked thread becomes runnable
cond_wake ==
    cond' = CASE cond = "wait_until" -> "woken_until"
              [] cond = "wait" -> "woken"
              [] OTHER -> cond

\* std::condition_variable::notify_one on internal::cond: a blocked thread
\* becomes runnable, a notification without a blocked thread is lost
cond_notify_one(by) ==
    /\ cond_wake
    /\ waitcall' = IF cond \in {"wait_until", "wait"}
                     THEN [waitcall EXCEPT !.notified = Append(@, by)]
                     ELSE waitcall

\* lines 2107-2110
notify ==
    /\ cond_notify_one("notify")
    /\ UNCHANGED <<time_limit, now, mutex>>
    /\ WaitFrame

\* lines 2095-2103, called by another thread: the mutex is locked
lock_notify_lock(c) ==
    /\ mutex_lock(c)
    /\ UNCHANGED wvars
    /\ WaitFrame

\* lines 2104-2105: the mutex is unlocked, then the thread is notified
lock_notify(c) ==
    /\ mutex_unlock(c)
    /\ cond_notify_one("lock_notify")
    /\ UNCHANGED <<time_limit, now>>
    /\ WaitFrame

\* a wait of std::condition_variable may end without a notification
spurious_wakeup ==
    /\ cond \in {"wait_until", "wait"}
    /\ cond_wake
    /\ UNCHANGED <<time_limit, now, waitcall, mutex>>
    /\ WaitFrame

\* the clock advances
tick ==
    /\ now < MaxTime
    /\ now' = now + 1
    /\ UNCHANGED <<time_limit, cond, waitcall, mutex>>
    /\ WaitFrame

\* lines 1917-1921: wait_until returns cv_status::timeout, with the mutex
\* locked again; a thread woken after the limit may be told timeout too
wait_wait_timeout ==
    /\ cond \in {"wait_until", "woken_until"}
    /\ now >= time_limit
    /\ mutex_lock(Target)
    /\ cond' = "none"
    /\ waitcall' = [waitcall EXCEPT !.state = "returned", !.ret = FALSE]
    /\ UNCHANGED <<time_limit, now>>
    /\ WaitFrame

\* lines 1917 and 1923: wait_until returns cv_status::no_timeout with the
\* mutex locked, and the thread blocks again in cond.wait, which releases
\* the mutex
wait_wait_again ==
    /\ cond = "woken_until"
    /\ mutex = NoOwner
    /\ cond' = "wait"
    /\ waitcall' = [waitcall EXCEPT !.wakeups = @ + 1]
    /\ UNCHANGED <<time_limit, now, mutex>>
    /\ WaitFrame

\* lines 1923-1925: cond.wait returns with the mutex locked
wait_wait_return ==
    /\ cond = "woken"
    /\ mutex_lock(Target)
    /\ cond' = "none"
    /\ waitcall' = [waitcall EXCEPT !.state = "returned", !.ret = TRUE,
                                    !.wakeups = @ + 1]
    /\ UNCHANGED <<time_limit, now>>
    /\ WaitFrame

\* lines 2090-2093, thread_ctrl::unlock() by the thread after its wait
wait_unlock ==
    /\ waitcall.state = "returned"
    /\ mutex_unlock(Target)
    /\ waitcall' = NoWait
    /\ UNCHANGED <<time_limit, now, cond>>
    /\ WaitFrame

WaitInit == ThreadInit /\ NoFault

WaitNext ==
    \/ wait_lock
    \/ \E timeout \in Timeouts : wait_start(timeout)
    \/ wait_wait
    \/ notify
    \/ \E c \in Callers : lock_notify_lock(c)
    \/ \E c \in Callers : lock_notify(c)
    \/ spurious_wakeup
    \/ tick
    \/ wait_wait_timeout
    \/ wait_wait_again
    \/ wait_wait_return
    \/ wait_unlock

WaitSpec == WaitInit /\ [][WaitNext]_vars

\* ======================================================================
\* Interrupt delivery on Windows (the _WIN32 branches): interrupt()
\* suspends the target, saves its context in internal::_context and makes
\* it run handle_interrupt, which installs a call of the handler by
\* rewriting the saved context; execute_interrupt_handler runs the handler
\* and restores the context.  The saved context is regs and dstart, the
\* registers of the target thread itself are cpu; stack is the log of the
\* words written to the target's stack.
\* ======================================================================
\* std::addressof(thread_ctrl::handle_interrupt), the address of
\* execute_interrupt_handler and a position inside the handler h: all
\* beyond the instruction stream
AtHandleInterrupt == Len(code) + 1
AtExecute == Len(code) + 2
AtHandler(h) == Len(code) + 2 + h
\* the stack that execute_interrupt_handler and the handler have taken
\* where the handler can be interrupted
HandlerDepth == u64(6 * 8)

\* the word at the stack position pos before anything is written to it,
\* and a word the frame of handle_interrupt holds: no code addresses
StackWord(pos) == 0 - 1 - (pos[1] % 256)
FrameWord == 0 - 1 - Limb
\* the word at the stack position pos after the writes st
RECURSIVE Mem(_, _)
Mem(st, pos) ==
    IF st = <<>> THEN StackWord(pos)
    ELSE IF st[Len(st)].pos = pos THEN st[Len(st)].value
    ELSE Mem(SubSeq(st, 1, Len(st) - 1), pos)
\* std::exchange(*(u64*)pos, value)
exchange(st, pos, value) == Append(st, [pos |-> pos, value |-> value])

\* the positions the task of the target is interrupted at
TaskPositions == 1..2

\* what the delivery leaves alone
RewriteFrame ==
    /\ UNCHANGED <<code, insn, dres, eflags, cmpcall>>
    /\ UNCHANGED <<addr, is_writing, cell, writes, fpc, flocal, ext, handled>>
    /\ UNCHANGED <<pvars, wvars>>
    /\ UNCHANGED <<platform, epc, g_tls_fault_count, outcomes, rcx0>>
    /\ UNCHANGED <<mutex, tpc, aborted, exception>>
    /\ UNCHANGED <<icv, sigpending, tret, tunw, thandler, hpc, hhandler, ipc,
                   cur, hist, ranBy>>
    /\ UNCHANGED jvars

\* lines 2200-2222, by another thread, with the target in its task or
\* inside a handler, in a leaf function or not: the handler is put into
\* the slot, the context of the suspended target is saved, and the target
\* resumes in handle_interrupt
interrupt_suspend(leaf) ==
    /\ calls < MaxCalls
    /\ interrupt = NULL
    /\ \/ cpu.rip \in TaskPositions
       \/ \E h \in 1..Len(intr) : cpu.rip = AtHandler(h)
    /\ calls' = calls + 1
    /\ interrupt' = calls + 1
    /\ regs' = [regs EXCEPT ![RSP] = cpu.rsp]
    /\ dstart' = cpu.rip
    /\ cpu' = [cpu EXCEPT !.rip = AtHandleInterrupt]
    /\ fault' = [NoException EXCEPT !.code = "interrupt", !.leaf = leaf]
    /\ intr' = Append(intr, [rip |-> cpu.rip, rsp |-> cpu.rsp, leaf |-> leaf,
                             word |-> Mem(stack, u64_sub(cpu.rsp, u64(8)))])
    /\ UNCHANGED <<m_guard, s_tls_ret_pos, s_tls_ret_addr, s_tls_handler,
                   stack>>
    /\ RewriteFrame

\* lines 2154-2198, _WIN32: the target runs handle_interrupt at the stack
\* pointer it was interrupted with, so the frame of handle_interrupt may
\* have overwritten the word below it (frame); with a zero guard the call
\* of the handler is installed in the saved context, which is then restored
handle_interrupt_install(frame) ==
    /\ cpu.rip = AtHandleInterrupt
    /\ LET below == u64_sub(cpu.rsp, u64(8))
           st == IF frame THEN exchange(stack, below, FrameWord)
                 ELSE stack
           install == ~guard_disabled(m_guard) /\ guard_is_zero(m_guard)
                        /\ interrupt # NULL
           pos == IF is_leaf_function(dstart) THEN u64(0)
                  ELSE u64_sub(regs[RSP], u64(8))
           rsp == IF install /\ ~is_leaf_function(dstart) THEN pos
                  ELSE regs[RSP]
           rip == IF install THEN AtExecute ELSE dstart
       IN /\ stack' = st
          /\ IF guard_disabled(m_guard) \/ guard_is_zero(m_guard)
               THEN interrupt' = NULL /\ UNCHANGED m_guard
               ELSE m_guard' = [m_guard EXCEPT !.deferred = TRUE]
                    /\ UNCHANGED interrupt
          /\ IF install
               THEN /\ s_tls_ret_addr' = dstart
                    /\ s_tls_ret_pos' = pos
                    /\ s_tls_handler' = interrupt
               ELSE UNCHANGED <<s_tls_ret_addr, s_tls_ret_pos, s_tls_handler>>
          /\ regs' = [regs EXCEPT ![RSP] = rsp]
          /\ dstart' = rip
          /\ cpu' = [rip |-> rip, rsp |-> rsp]
    /\ UNCHANGED <<calls, fault, intr>>
    /\ RewriteFrame

\* lines 2126-2132: the return address is put into the stack slot and the
\* handler is called
execute_interrupt_handler ==
    /\ cpu.rip = AtExecute
    /\ IF s_tls_ret_pos # u64(0)
         THEN /\ s_tls_ret_addr' = Mem(stack, s_tls_ret_pos)
              /\ stack' = exchange(stack, s_tls_ret_pos, s_tls_ret_addr)
         ELSE UNCHANGED <<s_tls_ret_addr, stack>>
    /\ cpu' = [rip |-> AtHandler(s_tls_handler),
               rsp |-> u64_sub(cpu.rsp, HandlerDepth)]
    /\ UNCHANGED <<m_guard, interrupt, calls, regs, dstart, fault,
                   s_tls_ret_pos, s_tls_handler, intr>>
    /\ RewriteFrame

\* lines 2134-2151: the handler h has returned; the stack slot gets its
\* word back, the saved context gets the return address and its stack
\* pointer, and is restored
execute_interrupt_handler_restore(h) ==
    /\ cpu.rip = AtHandler(h)
    /\ LET rip == IF s_tls_ret_pos # u64(0) THEN Mem(stack, s_tls_ret_pos)
                  ELSE s_tls_ret_addr
           rsp == IF s_tls_ret_pos # u64(0) THEN u64_add(regs[RSP], u64(8))
                  ELSE regs[RSP]
       IN /\ stack' = IF s_tls_ret_pos # u64(0)
                        THEN exchange(stack, s_tls_ret_pos, s_tls_ret_addr)
                        ELSE stack
          /\ dstart' = rip
          /\ regs' = [regs EXCEPT ![RSP] = rsp]
          /\ cpu' = [rip |-> rip, rsp |-> rsp]
    /\ UNCHANGED <<m_guard, interrupt, calls, fault, s_tls_ret_pos,
                   s_tls_ret_addr, s_tls_handler, intr>>
    /\ RewriteFrame

\* the guard of the target while interrupts are delivered to it: zero,
\* inside one guard scope, or disabled by finalize
RewriteGuards ==
    {ZeroGuard, [ZeroGuard EXCEPT !.level = 1],
     [ZeroGuard EXCEPT !.disabled = TRUE]}

RewriteInit ==
    /\ m_guard \in RewriteGuards
    /\ interrupt = NULL
    /\ mutex = NoOwner
    /\ icv = {}
    /\ sigpending = FALSE
    /\ tpc = "task"
    /\ tret = "task"
    /\ tunw = FALSE
    /\ thandler = NULL
    /\ hpc = "none"
    /\ hhandler = NULL
    /\ ipc = [t \in Threads |-> "idle"]
    /\ calls = 0
    /\ cur = [t \in Threads |-> 0]
    /\ hist = [k \in Calls |-> NoCall]
    /\ ranBy = {}
    /\ aborted = FALSE
    /\ exception = FALSE
    /\ m_joining = [done |-> FALSE, n |-> 0]
    /\ jpc = [j \in Joiners |-> "idle"]
    /\ jlocal = [j \in Joiners |-> [done |-> FALSE, n |-> 0]]
    /\ jcv = {}
    /\ osjoins = <<>>
    /\ junw = [j \in Joiners |-> FALSE]
    /\ code = Follower
    /\ insn = <<>>
    /\ dres = <<>>
    /\ eflags = 0
    /\ cmpcall = NoCmp
    /\ putcall = NoPut
    /\ addr = <<0, 0, 0, 0>>
    /\ is_writing = FALSE
    /\ cell = <<0, 0, 0, 0>>
    /\ writes = <<>>
    /\ fpc = "idle"
    /\ flocal = NoLocals
    /\ ext = <<>>
    /\ handled = "none"
    /\ platform = "win32"
    /\ epc = "none"
    /\ fault = NoException
    /\ g_tls_fault_count = [count |-> 0, bit63 |-> FALSE]
    /\ s_tls_ret_pos = u64(0)
    /\ s_tls_ret_addr = 0
    /\ stack = <<>>
    /\ outcomes = <<>>
    /\ NoWaiting
    /\ s_tls_handler = 0
    /\ intr = <<>>
    /\ \E rip \in TaskPositions,
          rsp \in {<<65024, 65535, 32767, 0>>, <<8, 0, 1, 0>>} :
         /\ cpu = [rip |-> rip, rsp |-> rsp]
         /\ dstart = rip
         /\ regs = [r \in 0..15 |-> IF r = RSP THEN rsp ELSE u64(0)]
    /\ rcx0 = regs[RCX]

RewriteNext ==
    \/ \E leaf \in BOOLEAN : interrupt_suspend(leaf)
    \/ \E frame \in BOOLEAN : handle_interrupt_install(frame)
    \/ execute_interrupt_handler
    \/ \E h \in Calls : execute_interrupt_handler_restore(h)

RewriteSpec == RewriteInit /\ [][RewriteNext]_vars

\* ======================================================================
\* Properties of the interrupt mechanism
\* ======================================================================

\* interrupt() is between its precondition checks and its return
InInterrupt(c) == ipc[c] \in {"installed", "check", "waiting", "woken"}

\* C1 (as stated): when interrupt(handler) is issued while the target's
\* guard counter is 0, the handler has been executed by the time interrupt()
\* returns.
C1_HandlerRanBeforeReturn ==
    \A c \in Callers :
        (ipc[c] = "returned" /\ hist[cur[c]].atZero)
            => hist[cur[c]].status = "ran"

\* C1 (amended): when interrupt(handler) is issued while the target's guard
\* counter is 0, interrupt() returns only after the target has removed the
\* handler from the pending slot (taken it to execute it, or discarded it);
\* the execution itself follows the notification and may come after the
\* return.
C1_HandlerConsumedBeforeReturn ==
    \A c \in Callers :
        (ipc[c] = "returned" /\ hist[cur[c]].atZero)
            => /\ hist[cur[c]].status \in {"taken", "ran", "discarded"}
               /\ interrupt # cur[c]

\* C1 witness: interrupt() issued at guard 0 has returned while the target
\* holds the handler, taken at delivery, and has not executed it yet.
C1_Witness ==
    \E c \in Callers :
        /\ ipc[c] = "returned" /\ hist[cur[c]].atZero
        /\ hist[cur[c]].status = "taken" /\ hhandler = cur[c]

\* C2: an interrupt delivered while the guard counter is nonzero and the top
\* bit is clear is not executed at delivery: the slot keeps the handler and
\* the deferred bit is set; such a handler is executed only by the target,
\* inside test_interrupt(), with the guard nesting level back at zero.
C2_DeliveryDefers ==
    (sigpending /\ ~sigpending' /\ ~m_guard.disabled /\ m_guard.level > 0)
        => /\ interrupt' = interrupt
           /\ m_guard' = [m_guard EXCEPT !.deferred = TRUE]
           /\ hist' = [k \in Calls |->
                         IF k = interrupt THEN [hist[k] EXCEPT !.deferred = TRUE]
                                          ELSE hist[k]]
           /\ hpc' = "none" /\ ranBy' = ranBy

C2_DeferredState ==
    \A k \in Calls :
        hist[k].deferred =>
            /\ hist[k].status \in {"pending", "taken", "ran", "discarded"}
            /\ hist[k].status = "pending"
                 => interrupt = k /\ hhandler # k /\ thandler # k
                    /\ (m_guard.deferred \/ tpc = "ti_take")
            /\ hist[k].status = "taken"
                 => thandler = k /\ hhandler # k /\ m_guard.level = 0
                    /\ tpc \in {"ti_lock", "ti_unlock", "ti_notify", "ti_exec"}
            /\ hist[k].status = "ran"
                 => /\ hist[k].ranIn = "test_interrupt"
                    /\ hist[k].ranLevel = 0
                    /\ ranBy \subseteq {Target}

C2_DeferredUntilTestInterrupt ==
    []C2_DeferredState /\ [][C2_DeliveryDefers]_vars

\* C2 witness: a handler whose delivery was deferred has been executed.
C2_Witness ==
    \E k \in Calls : hist[k].deferred /\ hist[k].status = "ran"

\* the target enters test_interrupt() outside its guarded sections and
\* outside stack unwinding
QuietPoint == tpc = "ti_entry" /\ hpc = "none" /\ m_guard.level = 0 /\ ~tunw

\* C5: provided the target keeps running and keeps reaching test_interrupt()
\* outside its guarded sections, every interrupt() call that passed its
\* precondition checks eventually returns; and no call returns while the
\* slot still holds its handler.
C5_InterruptReturns ==
    /\ ([]<>QuietPoint)
          => \A c \in Callers : (InInterrupt(c) ~> ipc[c] = "returned")
    /\ [](\A c \in Callers : ipc[c] = "returned" => interrupt # cur[c])

\* C6: at most one handler is pending at any time, and it is the one in the
\* slot; interrupt() on an occupied slot fails its assertion and leaves the
\* pending handler where it is.
C6_OnePending ==
    /\ Cardinality({k \in Calls : hist[k].status = "pending"}) <= 1
    /\ \A k \in Calls : hist[k].status = "pending" <=> interrupt = k

C6_OccupiedFails ==
    \A c \in Callers :
        (ipc[c] = "locked" /\ interrupt # NULL /\ ipc'[c] # "locked")
            => /\ ipc'[c] = "failed"
               /\ interrupt' = interrupt
               /\ hist' = hist

C6_AtMostOnePending == []C6_OnePending /\ [][C6_OccupiedFails]_vars

\* C6 witness: an interrupt() call has failed on a slot that another
\* call's handler occupies.
C6_Witness ==
    \E c \in Callers :
        ipc[c] = "failed" /\ interrupt # NULL /\ interrupt # cur[c]

\* C7: interrupt() called by the target on its own thread object fails its
\* precondition check: the slot is not written and no signal is raised.
C7_SelfFails ==
    (ipc[Target] = "idle" /\ ipc'[Target] # "idle")
        => /\ ipc'[Target] = "failed"
           /\ interrupt' = interrupt
           /\ sigpending' = sigpending

C7_SelfInterruptFails ==
    [](ipc[Target] \in {"idle", "failed"}
         /\ (interrupt # NULL => interrupt # cur[Target]))
        /\ [][C7_SelfFails]_vars

\* C7 witness: the target's call of interrupt() on itself has failed.
C7_Witness == ipc[Target] = "failed"

\* C8 (as stated): whenever the top bit of the guard counter is set, the
\* pending slot is empty.
C8_DisabledSlotEmpty == m_guard.disabled => interrupt = NULL

\* C8 (amended): interrupt() does not look at the guard counter, so a
\* handler can be in the slot while the top bit is set; such a handler is
\* still pending for an interrupt() call that has not returned, and the
\* target neither holds it for execution nor has executed it.
C8_DisabledSlotAwaitsDiscard ==
    (m_guard.disabled /\ interrupt # NULL)
        => /\ \E c \in Callers : cur[c] = interrupt /\ InInterrupt(c)
           /\ hist[interrupt].status = "pending"
           /\ hist[interrupt].execs = 0
           /\ hhandler # interrupt /\ thandler # interrupt

\* C8 witness: a handler sits in the slot of a thread whose top bit is set.
C8_Witness == m_guard.disabled /\ interrupt # NULL

\* With the top bit set no handler is executed: the delivery path and
\* test_interrupt() take a pending handler out of the slot without running
\* it and without touching the guard counter, and go on to the
\* lock/unlock/notify sequence.
C9_Discard ==
    m_guard.disabled =>
        /\ m_guard' = m_guard
        /\ ranBy' = ranBy
        /\ \A k \in Calls :
             /\ hist'[k].execs = hist[k].execs
             /\ hist'[k].status \notin {"taken", "ran"}
                    \/ hist'[k].status = hist[k].status
             /\ (hist[k].status = "pending" /\ hist'[k].status # "pending")
                  => /\ hist'[k].status = "discarded"
                     /\ interrupt' = NULL
                     /\ (hpc' = "hi_lock" /\ hhandler' = NULL)
                            \/ (tpc' = "ti_lock" /\ thandler' = NULL)

C9_NeverExecuted ==
    [][C9_Discard]_vars
        /\ [](m_guard.disabled =>
                \A k \in Calls : hist[k].status # "taken")

\* the interrupt() call number k is no longer blocked: it has returned
Released(k) == \A c \in Callers : cur[c] = k => ~InInterrupt(c)

\* C9: once the top bit is set, a handler that is pending or delivered is
\* never executed: the delivery path and test_interrupt() remove it from the
\* slot without running it and without setting the deferred bit, and the
\* initiator waiting for it is released.
C9_DisabledDiscardsAndReleases ==
    /\ C9_NeverExecuted
    /\ \A k \in Calls : (hist[k].status = "discarded") ~> Released(k)

\* C10: handlers are executed on the target thread only, at delivery or in
\* its own test_interrupt(); never by a thread that called interrupt().
C10_RunsOnTarget ==
    /\ ranBy \subseteq {Target}
    /\ \A k \in Calls :
         hist[k].status = "ran"
            => hist[k].ranIn \in {"handle_interrupt", "test_interrupt"}

\* C10 witness: handlers have been executed both ways.
C10_Witness ==
    /\ ranBy = {Target}
    /\ \E k, l \in Calls :
         /\ hist[k].status = "ran" /\ hist[k].ranIn = "handle_interrupt"
         /\ hist[l].status = "ran" /\ hist[l].ranIn = "test_interrupt"

\* ======================================================================
\* Properties of the instruction decoder
\* ======================================================================
\* the instruction forms the decoder does not support: an address-size
\* override among the prefixes, an opcode it does not enumerate, or an
\* unimplemented operation of the group opcodes 0xF6/0xF7
NotEnumerated == {<<1>>, <<171>>, <<15, 5>>, <<15, 56, 0>>, <<15, 153>>}
Unsupported(i) ==
    \/ \E k \in 1..Len(i.prefixes) : i.prefixes[k] = 103
    \/ i.form.opc \in NotEnumerated
    \/ i.form.opc \in {<<246>>, <<247>>} /\ (i.modrm \div 8) % 8 # 0

\* C13: for every unsupported instruction form decode returns kind None
\* together with length 0.
C13_UnsupportedIsNoneZero ==
    /\ \A k \in 1..Len(dres) :
          dres[k].op = "X64OP_NONE" => dres[k].length = 0
    /\ (Len(dres) >= 1 /\ Unsupported(insn))
          => dres[1].op = "X64OP_NONE" /\ dres[1].length = 0

\* a VEX-encoded instruction takes no legacy or REX prefix
WellFormed(i) ==
    i.form.opc[1] \in {196, 197} => i.prefixes = <<>>

\* C14: for every supported encoding the decoded length is the number of
\* bytes the instruction occupies, so that decoding again that many bytes
\* later decodes the instruction that follows (mov eax, ecx).
C14_LengthIsBytesConsumed ==
    (Len(dres) >= 1 /\ WellFormed(insn) /\ dres[1].op # "X64OP_NONE")
        => /\ dres[1].length = x64_length(insn)
           /\ Len(dres) = 2
                => dres[2] = Decoded("X64OP_STORE", X64R_RCX, 4, 2)


\* ======================================================================
\* Properties of the flags computation
\* ======================================================================
\* the flags the processor sets for cmp x, y (x - y) at d_size bytes
HwDiff(c)  == u64_trunc(u64_sub(c.x, c.y), c.d_size)
HwSign(v, d_size) == u64_bit(v, 8 * d_size - 1)
HwCF(c) == u64_less(c.x, c.y)
HwZF(c) == c.x = c.y
HwSF(c) == HwSign(HwDiff(c), c.d_size)
HwOF(c) == /\ HwSign(c.x, c.d_size) # HwSign(c.y, c.d_size)
           /\ HwSign(HwDiff(c), c.d_size) # HwSign(c.x, c.d_size)
HwPF(c) == Cardinality({n \in 0..7 : u64_bit(HwDiff(c), n)}) % 2 = 0

\* C15: set_x64_cmp_flags(x, y) at 1, 2, 4 or 8 bytes leaves in EFLAGS
\* the carry, zero, sign, overflow and parity flags of the comparison of
\* x with y.
C15_CompareFlags ==
    (cmpcall.state = "true" /\ cmpcall.carry)
        => /\ bit(eflags, 0) = HwCF(cmpcall)
           /\ bit(eflags, 6) = HwZF(cmpcall)
           /\ bit(eflags, 7) = HwSF(cmpcall)
           /\ bit(eflags, 11) = HwOF(cmpcall)
           /\ bit(eflags, 2) = HwPF(cmpcall)

\* ======================================================================
\* Properties of join()
\* ======================================================================
JoinOver(j) == jpc[j] \in {"returned", "rethrown"}
InJoin(j)   == jpc[j] \notin {"idle", "returned", "rethrown"}

\* C3: no join() call is over before the joined thread's body (the task,
\* then finalize) has completed, and exactly one caller, the one that
\* observed the contention counter 0, performs the std::thread::join().
C3_JoinAfterBodyOnce ==
    /\ Len(osjoins) <= 1
    /\ \A i \in 1..Len(osjoins) :
         jlocal[osjoins[i]] = [done |-> FALSE, n |-> 0]
    /\ \A j \in Joiners :
         JoinOver(j) => tpc = "exited" /\ Len(osjoins) = 1
    /\ \A j \in Joiners :
         jpc[j] \in {"exchange", "n_lock", "n_unlock", "n_notify"}
            => osjoins = <<j>>

\* C3 witness: three concurrent join() calls are over, one through each
\* branch: the winner, a waiter and a caller that found the thread joined.
C3_Witness ==
    /\ \A j \in Joiners : JoinOver(j)
    /\ \E j \in Joiners : jlocal[j] = [done |-> FALSE, n |-> 0]
    /\ \E j \in Joiners : ~jlocal[j].done /\ jlocal[j].n > 0
    /\ \E j \in Joiners : jlocal[j].done

\* C4: every join() call that has started is eventually over (the joined
\* thread's body terminates): a caller waiting on jcv cannot miss the
\* winner's notification.
C4_JoinReturns ==
    \A j \in Joiners : InJoin(j) ~> JoinOver(j)

\* C11 (as stated): a join() call that is over has raised exactly when an
\* error escaped the task body, whichever branch of join() it went through.
C11_EveryJoinRethrows ==
    \A j \in Joiners :
        JoinOver(j) => (jpc[j] = "rethrown" <=> exception)

\* C11 (amended): the error that escaped the task body is stored before
\* the thread function ends and is never cleared, and a join() call that
\* is over has raised exactly when an error is stored and its caller was
\* not itself unwinding from an exception (std::uncaught_exception());
\* this holds for the winner, a waiter and a late caller alike.
C11_JoinRethrowsUnlessUnwinding ==
    /\ [][exception => exception']_vars
    /\ [][tpc = "exited" => exception' = exception]_vars
    /\ [](\A j \in Joiners :
            JoinOver(j) =>
                (jpc[j] = "rethrown" <=> (exception /\ ~junw[j])))

\* C11 witness: an error escaped the task; the winner, a waiter and a late
\* caller have all raised it.
C11_Witness ==
    /\ exception
    /\ \A j \in Joiners : jpc[j] = "rethrown"
    /\ \E j \in Joiners : jlocal[j] = [done |-> FALSE, n |-> 0]
    /\ \E j \in Joiners : ~jlocal[j].done /\ jlocal[j].n > 0
    /\ \E j \in Joiners : jlocal[j].done

\* the u32 value of the contention counter a is below that of b
counter_less(a, b) ==
    \/ ~a.done /\ b.done
    \/ a.done = b.done /\ a.n < b.n

\* C12 (as stated): the contention counter never decreases, and the
\* completed value 0x80000000 is never written over a counter that already
\* has the completed bit.
C12_CounterMonotone ==
    /\ [][~counter_less(m_joining', m_joining)]_vars
    /\ [][(m_joining' = Sentinel /\ m_joining' # m_joining)
             => ~m_joining.done]_vars

\* C12 (amended): the counter starts at 0; until the thread is joined it
\* only increases; it gets the completed bit exactly once, by the winner's
\* exchange, which writes exactly 0x80000000; the bit is never lost
\* afterwards, although later callers increment the counter past
\* 0x80000000 and write it back to 0x80000000.
C12_CompletedBitSetOnce ==
    /\ [][m_joining.done => m_joining'.done]_vars
    /\ [][(~m_joining.done /\ ~m_joining'.done)
             => ~counter_less(m_joining', m_joining)]_vars
    /\ [][(~m_joining.done /\ m_joining'.done)
             => /\ m_joining' = Sentinel
                /\ \E j \in Joiners :
                     /\ jpc[j] = "exchange" /\ jpc'[j] # "exchange"
                     /\ osjoins = <<j>>]_vars
    /\ [](m_joining.done => m_joining.n <= Cardinality(Joiners))

\* C12 witness: after the winner's write a late caller has incremented
\* the counter to 0x80000001 and is about to write 0x80000000 again.
C12_Witness ==
    /\ m_joining = [done |-> TRUE, n |-> 1]
    /\ \E j \in Joiners : jpc[j] = "already"

\* C4 witness: a caller is blocked in jcv.wait while the winner has already
\* written the completed value and is about to notify.
C4_Witness ==
    \E j, w \in Joiners :
        /\ jpc[j] = "waiting" /\ j \in jcv
        /\ jpc[w] \in {"n_lock", "n_unlock", "n_notify"}
        /\ m_joining.done

\* ======================================================================
\* Properties of handle_access_violation
\* ======================================================================
\* the instruction at rip is a repeated block store: F3 [REX.W] AA / AB
IsRepStos(cd, rip) ==
    /\ cd[rip] = 243
    /\ \/ cd[rip + 1] \in {170, 171}
       \/ cd[rip + 1] = 72 /\ cd[rip + 2] \in {170, 171}
\* its length, and the size of the element it stores
RepStosLength(cd, rip) == IF cd[rip + 1] = 72 THEN 3 ELSE 2
RepStosSize(cd, rip) ==
    LET opc == cd[rip + RepStosLength(cd, rip) - 1] IN
    IF opc = 170 THEN 1 ELSE IF cd[rip + 1] = 72 THEN 8 ELSE 4
\* the number of elements of size s that start at or after a and before
\* the end of the 4096-byte page of a
ElementsInPage(a, s) == ((4096 - (a[1] % 4096)) + s - 1) \div s
\* min(n, k) for a 64-bit n and a small k
u64_min(n, k) ==
    IF n[2] # 0 \/ n[3] # 0 \/ n[4] # 0 \/ n[1] >= k THEN k ELSE n[1]

\* C16: a repeated block store with ascending direction whose destination
\* is the fault address is emulated, in one run of the callback, for
\* exactly min(counter, elements that start before the end of the page)
\* iterations: that many writes are made, the counter is decremented and
\* the destination pointer advanced by that many elements, the fault is
\* reported handled, and the instruction pointer is advanced by the
\* instruction length exactly when the counter reached zero.
C16_RepeatedBlockStore ==
    [][(/\ fpc = "query" /\ fpc' = "done"
        /\ IsRepStos(code, dstart)
        /\ ~bit(eflags, 10)
        /\ regs[RDI] = vm_base(addr))
       => LET s == RepStosSize(code, dstart)
              k == u64_min(regs[RCX], ElementsInPage(addr, s))
          IN /\ handled' = "true"
             /\ Len(writes') = Len(writes) + k
             /\ regs'[RCX] = u64_sub(regs[RCX], u64(k))
             /\ regs'[RDI] = u64_add(regs[RDI], u64(k * s))
             /\ dstart' = IF regs'[RCX] = u64(0)
                            THEN dstart + RepStosLength(code, dstart)
                            ELSE dstart]_vars

\* the instruction at rip is cmpxchg [rax], cl / ecx / rcx
\* (0F B0 08, 0F B1 08, 48 0F B1 08), and the width of its operands
IsCmpxchg(cd, rip) ==
    \/ cd[rip] = 15 /\ cd[rip + 1] \in {176, 177} /\ cd[rip + 2] = 8
    \/ cd[rip] = 72 /\ cd[rip + 1] = 15 /\ cd[rip + 2] = 177
                    /\ cd[rip + 3] = 8
CmpxchgWidth(cd, rip) ==
    IF cd[rip] = 72 THEN 8 ELSE IF cd[rip + 1] = 176 THEN 1 ELSE 4
\* its source register equals the accumulator at that width
CmpxchgSameOperands ==
    /\ IsCmpxchg(code, dstart)
    /\ u64_trunc(regs[RCX], CmpxchgWidth(code, dstart))
         = u64_trunc(regs[RAX], CmpxchgWidth(code, dstart))

\* C17: for a compare-exchange whose source register equals the
\* accumulator at the operand width, the access size computed is 0, and
\* the callback leaves the emulated memory with the value it had, whether
\* the comparison with memory succeeds or not, and reports handled.
C17_CmpxchgSameOperands ==
    /\ [][(fpc = "decode" /\ CmpxchgSameOperands
             /\ ~size_invalid(u64(CmpxchgWidth(code, dstart)), addr))
          => (flocal'.a_size = u64(0) /\ fpc' = "route")]_vars
    /\ [][(fpc = "query" /\ fpc' = "done" /\ CmpxchgSameOperands)
          => (cell' = cell /\ handled' = "true")]_vars

\* a compare-exchange with equal operands was emulated and its comparison
\* with memory succeeded: the store was made, of the value already there
C17_Witness ==
    /\ fpc = "done" /\ handled = "true"
    /\ flocal.op = "X64OP_CMPXCHG" /\ flocal.a_size = u64(0)
    /\ Len(writes) = 1
    /\ cell = u64(1)

\* C18: every write to emulated memory made by the violation handler is
\* made inside the callback given to vm::reservation_query: the log of
\* writes grows only in the step that runs the reservation query, after
\* the call was made, and never before it or after it returned.
C18_WritesInsideCallback ==
    /\ [](\A i \in 1..Len(writes) : writes[i].inq)
    /\ [][writes' # writes
            => /\ fpc = "query" /\ fpc' = "done"
               /\ ext # <<>>
               /\ ext[Len(ext)].call = "reservation_query"]_vars
    /\ [](fpc \in {"fault", "decode", "route", "mmio"} => writes = <<>>)

\* a store was emulated: the write was made and the fault reported handled
C18_Witness ==
    /\ fpc = "done" /\ handled = "true"
    /\ flocal.op = "X64OP_STORE"
    /\ Len(writes) = 1 /\ writes[1].inq /\ writes[1].at = addr

\* the size, alone or added to the address a, reaches 2^32
ReachesLimit(size, a) ==
    \/ ~u64_less(size, <<0, 0, 1, 0>>)
    \/ ~u64_less(u64_add(size, a), <<0, 0, 1, 0>>)
\* the fault being decoded has an operand size or an access size that
\* leaves the 32-bit address space
SizeOutOfRange ==
    LET d == decode_x64_reg_op(code, dstart)
        c == [regs |-> regs, eflags |-> eflags, rip |-> dstart,
              code |-> code]
    IN \/ ReachesLimit(u64(d.size), addr)
       \/ ReachesLimit(get_x64_access_size(c, d.op, d.reg, d.size, d.length),
                       addr)

\* C19: when the decoded operand size or the computed access size, alone
\* or added to the fault address, reaches 2^32, the handler returns
\* unhandled at once: the reservation mechanism and the register
\* interfaces are not called, and emulated memory, the registers, the
\* flags and the instruction pointer are unchanged.
C19_OversizeUnhandled ==
    [][(fpc = "decode" /\ SizeOutOfRange)
       => /\ fpc' = "done" /\ handled' = "false"
          /\ UNCHANGED <<ext, cell, writes, regs, eflags, dstart>>
          /\ \A i \in 1..Len(ext) : ext[i].call = "rsx"]_vars

\* a repeated block store of 2^32 bytes was rejected, the operand size
\* itself being in range
C19_Witness ==
    /\ fpc = "done" /\ handled = "false"
    /\ flocal.op = "X64OP_STOS"
    /\ ~ReachesLimit(u64(flocal.size), addr)
    /\ ReachesLimit(flocal.a_size, addr)
    /\ Len(ext) = 1 /\ writes = <<>> /\ dstart = 1

\* the first address of the register window of the instance k, and the
\* first address of its registers
WindowStart(k) == u64_add(RAW_SPU_BASE_ADDR, <<0, k * 16, 0, 0>>)
ProbeStart(k) == u64_add(WindowStart(k), RAW_SPU_PROB_OFFSET)
\* the address a is inside the window of the instance k
InWindow(a, k) ==
    ~u64_less(a, WindowStart(k)) /\ u64_less(a, WindowStart(k + 1))
\* a is an address of a register of one of the six instances
IsRegisterAddress(a) ==
    \E k \in 0..5 : InWindow(a, k) /\ ~u64_less(a, ProbeStart(k))
\* the external interfaces called so far
Called == {ext[i].call : i \in 1..Len(ext)}

\* C20: a fault is dispatched to the register interface of a secondary
\* processor exactly when its address is inside one of the six register
\* windows at or above the probe offset; every other address, those inside
\* a window below the probe offset included, goes to the reservation
\* mechanism and never reaches idm::get, read_reg or write_reg.
C20_MmioRouting ==
    /\ [][fpc = "route"
            => /\ fpc' = "mmio" <=> IsRegisterAddress(addr)
               /\ fpc' = "query" <=> ~IsRegisterAddress(addr)]_vars
    /\ [](Called \cap {"idm_get", "read_reg", "write_reg"} # {}
            => IsRegisterAddress(addr))
    /\ []("reservation_query" \in Called => ~IsRegisterAddress(addr))

\* a store to an address inside the first window, below the probe offset,
\* was emulated as a store to memory
C20_Witness ==
    /\ fpc = "done" /\ handled = "true"
    /\ InWindow(addr, 0) /\ u64_less(addr, ProbeStart(0))
    /\ "reservation_query" \in Called
    /\ Len(writes) = 1

\* the kinds of operation the register interface serves
MmioLoads == {"X64OP_LOAD", "X64OP_LOAD_BE", "X64OP_LOAD_CMP",
              "X64OP_LOAD_TEST"}
MmioStores == {"X64OP_STORE", "X64OP_STORE_BE"}
\* the 32-bit value of the register or immediate operand of the
\* instruction being handled
Operand32 ==
    get_x64_reg_value([regs |-> regs, eflags |-> eflags, rip |-> dstart,
                       code |-> code], flocal.reg, 4, flocal.length).value

\* C23: in the register path a fault is handled only for a load,
\* big-endian load, load-compare, load-test, store or big-endian store of
\* access size 4 whose direction matches the access; a handled load uses
\* the value of read_reg byte-swapped unless it is the big-endian load, a
\* handled store gives write_reg the operand byte-swapped unless it is the
\* big-endian store, and the instruction pointer is advanced by the
\* decoded length; an unhandled fault leaves it alone.
C23_DeviceRegisterPath ==
    [][fpc = "mmio"
       => LET op   == flocal.op
              last == ext'[Len(ext')]
          IN /\ handled' = "true" =>
                  /\ op \in MmioLoads \cup MmioStores
                  /\ flocal.a_size = u64(4)
                  /\ is_writing <=> op \in MmioStores
                  /\ dstart' = dstart + flocal.length
                  /\ op \in MmioStores =>
                       /\ last.call = "write_reg"
                       /\ last.value = IF op = "X64OP_STORE_BE" THEN Operand32
                                       ELSE se_swap(Operand32, 4)
                  /\ op \in MmioLoads => last.call = "read_reg"
                  /\ op = "X64OP_LOAD" =>
                       regs'[flocal.reg] = se_swap(last.value, 4)
                  /\ op = "X64OP_LOAD_BE" => regs'[flocal.reg] = last.value
                  /\ op = "X64OP_LOAD_CMP" =>
                       (bit(eflags', 6) <=> se_swap(last.value, 4) = Operand32)
                  /\ op = "X64OP_LOAD_TEST" =>
                       (bit(eflags', 6) <=>
                          u64_and(se_swap(last.value, 4), Operand32) = u64(0))
             /\ handled' # "true" => dstart' = dstart]_vars

\* a load from a register was handled: the destination register holds the
\* value read, byte-swapped
C23_Witness ==
    /\ fpc = "done" /\ handled = "true"
    /\ flocal.op = "X64OP_LOAD"
    /\ ext[Len(ext)] = [call |-> "read_reg", value |-> <<513, 1027, 0, 0>>]
    /\ regs[RCX] = <<772, 258, 0, 0>>
    /\ dstart = 1 + flocal.length

\* the step ends the handling of a fault whose instruction was decoded
HandlerReturns == fpc \in {"decode", "mmio", "query"} /\ fpc' = "done"
\* a repeated block operation stopped with its counter not yet zero
BlockOpContinues ==
    /\ flocal.op \in {"X64OP_MOVS", "X64OP_STOS"}
    /\ flocal.reg # X64_NOT_SET
    /\ regs'[RCX] # u64(0)

DecodedFirst ==
    /\ Len(dres) >= 1
    /\ \A k \in 1..Len(insn.prefixes) : insn.prefixes[k] # 103
\* the operation the reg field r of an immediate-group opcode selects
GroupOperation(r) ==
    CASE r = 0 -> "X64OP_ADD" [] r = 1 -> "X64OP_OR"
      [] r = 2 -> "X64OP_ADC" [] r = 3 -> "X64OP_SBB"
      [] r = 4 -> "X64OP_AND" [] r = 5 -> "X64OP_SUB"
      [] r = 6 -> "X64OP_XOR" [] OTHER -> "X64OP_LOAD_CMP"

\* C25: for the immediate-group opcodes 0x80, 0x81 and 0x83 the reg field
\* of the ModRM byte selects add, or, adc, sbb, and, sub, xor, compare for
\* the values 0 .. 7; reg field 0 is Add for all three opcodes.
C25_GroupOpcodes ==
    (DecodedFirst /\ insn.form.opc \in {<<128>>, <<129>>, <<131>>})
        => dres[1].op = GroupOperation((insn.modrm \div 8) % 8)

\* C26: each opcode 0x0F 0x90 .. 0x0F 0x9F without a lock prefix decodes
\* to a Store of size 1 whose operand is the condition-code
\* pseudo-register with the index of the low nibble of the opcode.
C26_SetOnCondition ==
    (/\ DecodedFirst
     /\ Len(insn.form.opc) = 2
     /\ insn.form.opc[1] = 15 /\ insn.form.opc[2] \in 144..159
     /\ \A k \in 1..Len(insn.prefixes) : insn.prefixes[k] # 240)
        => /\ dres[1].op = "X64OP_STORE"
           /\ dres[1].size = 1
           /\ dres[1].reg = X64_BIT_O + (insn.form.opc[2] % 16)

\* the prefix bytes p from position k on without the duplicates: of the REX
\* bytes the last one is kept, of equal bytes of another kind the first
RECURSIVE SinglePrefixes(_, _)
SinglePrefixes(p, k) ==
    IF k > Len(p) THEN <<>>
    ELSE LET keep == IF p[k] \div 16 = 4
                       THEN \A j \in (k + 1)..Len(p) : p[j] \div 16 # 4
                       ELSE \A j \in 1..(k - 1) : p[j] # p[k]
         IN (IF keep THEN <<p[k]>> ELSE <<>>) \o SinglePrefixes(p, k + 1)
\* what the decoder returns for the instruction i
DecodeOf(i) == decode_x64_reg_op(x64_encode(i) \o Follower, 1)

\* C27: an instruction with duplicated prefixes decodes to the operation,
\* operand and operand size of the same instruction with each prefix given
\* once: of several REX bytes the last one counts, and a repeated lock,
\* repeat or operand-size prefix counts as a single one.
C27_DuplicatePrefixes ==
    DecodedFirst =>
        LET d == DecodeOf([insn EXCEPT
                             !.prefixes = SinglePrefixes(insn.prefixes, 1)])
        IN /\ dres[1].op = d.op
           /\ dres[1].reg = d.reg
           /\ dres[1].size = d.size

\* C29: every instruction the decoder accepts (operation other than None)
\* has an operand size of 1, 2, 4, 8 or 16 bytes, the stores encoded with a
\* VEX prefix included.
C29_OperandSizes ==
    \A k \in 1..Len(dres) :
        dres[k].op # "X64OP_NONE" => dres[k].size \in {1, 2, 4, 8, 16}

\* the arithmetic operations on memory, and the operand of the one being
\* handled at its width
ArithOps == {"X64OP_INC", "X64OP_DEC", "X64OP_ADD", "X64OP_ADC",
             "X64OP_SUB", "X64OP_SBB"}
OperandW ==
    get_x64_reg_value([regs |-> regs, eflags |-> eflags, rip |-> dstart,
                       code |-> code], flocal.reg, flocal.size,
                      flocal.length).value
\* the carry out of old + v + cin and the borrow of old - v - cin, new
\* being the result at the same width
HwCarry(old, new, cin) ==
    IF cin THEN ~u64_less(old, new) ELSE u64_less(new, old)
HwBorrow(old, v, cin) ==
    IF cin THEN ~u64_less(v, old) ELSE u64_less(old, v)

\* C30: after an emulated increment, decrement, add, adc, sub or sbb on
\* memory at width w, ZF is set iff the value now in memory is zero, SF
\* is the sign bit of that value, CF is the carry of the addition or the
\* borrow of the subtraction, and increment and decrement leave CF as it
\* was.
C30_ArithmeticFlags ==
    [][(fpc = "query" /\ handled' = "true" /\ flocal.op \in ArithOps)
       => LET op  == flocal.op
              cin == bit(eflags, 0) /\ op \in {"X64OP_ADC", "X64OP_SBB"}
          IN /\ bit(eflags', 6) <=> cell' = u64(0)
             /\ bit(eflags', 7) <=> u64_bit(cell', 8 * flocal.size - 1)
             /\ op \in {"X64OP_ADD", "X64OP_ADC"} =>
                  (bit(eflags', 0) <=> HwCarry(cell, cell', cin))
             /\ op \in {"X64OP_SUB", "X64OP_SBB"} =>
                  (bit(eflags', 0) <=> HwBorrow(cell, OperandW, cin))
             /\ op \in {"X64OP_INC", "X64OP_DEC"} =>
                  (bit(eflags', 0) <=> bit(eflags, 0))]_vars

\* ======================================================================
\* Properties of put_x64_reg_value
\* ======================================================================

\* the call of put_x64_reg_value returns
PutReturns == putcall.state = "called" /\ putcall'.state # "called"

\* the register is x outside its low n bits and y inside them
MergedLow(new, old, value, n) ==
    \A k \in 0..63 : u64_bit(new, k) = IF k < n THEN u64_bit(value, k)
                                       ELSE u64_bit(old, k)

\* C28: a write to a general register keeps bits 8..63 of the register for
\* one byte and bits 16..63 for two bytes, zeroes bits 32..63 for four
\* bytes, replaces the register for eight bytes, and changes no other
\* register; a write to an immediate or a condition code fails and changes
\* no register
C28_PartialRegisterWrite ==
    [][PutReturns
       => LET reg == putcall.reg
              d   == putcall.d_size
              v   == putcall.value
          IN /\ (reg \in 0..15 /\ d \in {1, 2, 4, 8}) =>
                  /\ putcall'.state = "true"
                  /\ \A r \in 0..15 : r # reg => regs'[r] = regs[r]
                  /\ d = 1 => MergedLow(regs'[reg], regs[reg], v, 8)
                  /\ d = 2 => MergedLow(regs'[reg], regs[reg], v, 16)
                  /\ d = 4 => MergedLow(regs'[reg], u64(0), v, 32)
                  /\ d = 8 => regs'[reg] = v
             /\ (reg \in {X64_IMM8, X64_IMM16, X64_IMM32}
                    \/ reg \in X64_BIT_O..(X64_BIT_O + 15)) =>
                  /\ putcall'.state = "false"
                  /\ regs' = regs]_vars

\* ======================================================================
\* Properties of the fault entry points
\* ======================================================================

\* the entry point (with the unhandled exception filter on Windows) is
\* done with the fault: the thread resumes or the process dies
EntryReturns ==
    /\ epc \in {"entry", "handler", "filter"}
    /\ epc' \in {"run", "trampoline", "fatal"}

\* the fault is an access violation inside the 32-bit window that
\* handle_access_violation has not handled
Unhandled ==
    /\ fault.code = "access_violation"
    /\ InWindow64(fault.addr64)
    /\ ~(epc = "handler" /\ handled = "true")

\* the failing address as the 32-bit offset the entry points pass on
FailingAddress == <<fault.addr64[1], fault.addr64[2], 0, 0>>

\* the context after the step is a call of the trampoline with the
\* failing address and the cause, returning to the faulting instruction;
\* leaf tells whether the stack pointer is left alone
Rewritten(leaf) ==
    /\ dstart' = Trampoline
    /\ {regs'[ARG1], regs'[ARG2]} = {cause(fault.is_writing), FailingAddress}
    /\ s_tls_ret_addr' = dstart
    /\ IF leaf
         THEN regs'[RSP] = regs[RSP] /\ s_tls_ret_pos' = u64(0)
         ELSE /\ regs'[RSP] = u64_sub(regs[RSP], u64(8))
              /\ s_tls_ret_pos' = regs'[RSP]
    /\ \A r \in 0..15 : r \notin {ARG1, ARG2, RSP} => regs'[r] = regs[r]

\* the step leaves the context and the thread-local return linkage alone
NotRewritten ==
    /\ dstart' = dstart
    /\ regs' = regs
    /\ s_tls_ret_pos' = s_tls_ret_pos
    /\ s_tls_ret_addr' = s_tls_ret_addr

\* C21: a fault inside the window that the violation handler does not
\* handle leaves the context as a call of the trampoline with the failing
\* address and the cause string, the original instruction pointer kept
\* as the return address (stack pointer lowered by 8 for a non-leaf
\* function, untouched for a leaf function); a handled fault leaves the
\* context as the handler made it
C21_ContextRewrite ==
    [][EntryReturns
       => /\ Unhandled => Rewritten(fault.leaf)
          /\ (epc = "handler" /\ handled = "true") => NotRewritten]_vars

\* a fault of the thread has been redirected to the trampoline
Redirected == \E i \in DOMAIN outcomes : outcomes[i] = "redirected"

\* the number of faults redirected so far
Redirects(o) == Cardinality({i \in DOMAIN o : o[i] = "redirected"})

\* C22: once a fault of the thread has been redirected to the trampoline,
\* a further unhandled fault of the thread is not redirected: the context
\* is rewritten at most once and the repeated fault is reported as fatal
C22_RedirectOnce ==
    [][/\ Redirects(outcomes') <= 1
       /\ (EntryReturns /\ Unhandled /\ Redirected)
            => /\ epc' = "fatal"
               /\ NotRewritten
               /\ ext' = Append(ext, Call("report_fatal_error",
                                          fault.addr64))]_vars

\* the bitwise operations on memory
BitwiseOps == {"X64OP_AND", "X64OP_OR", "X64OP_XOR"}
\* bit k of the result of op on the bits a and b
BitOf(op, a, b) ==
    CASE op = "X64OP_AND" -> a /\ b
      [] op = "X64OP_OR"  -> a \/ b
      [] OTHER            -> ~(a <=> b)

\* C31: after an emulated and, or, xor on memory at width w, memory holds
\* the bitwise result of its old contents and the operand, ZF is set iff
\* the result is zero, SF is the sign bit of the result at width w, and
\* CF and OF are cleared.
C31_BitwiseOps ==
    [][(fpc = "query" /\ handled' = "true" /\ flocal.op \in BitwiseOps)
       => LET w == 8 * flocal.size
          IN /\ \A k \in 0..(w - 1) :
                  u64_bit(cell', k) <=>
                      BitOf(flocal.op, u64_bit(cell, k),
                            u64_bit(OperandW, k))
             /\ \A k \in w..63 : ~u64_bit(cell', k)
             /\ bit(eflags', 6) <=> cell' = u64(0)
             /\ bit(eflags', 7) <=> u64_bit(cell', w - 1)
             /\ ~bit(eflags', 0)
             /\ ~bit(eflags', 11)
             /\ Len(writes') = Len(writes) + 1]_vars

\* an exclusive or with 1 emptied the memory while CF and OF were set:
\* ZF is set, CF and OF are cleared
C31_Witness ==
    /\ fpc = "done" /\ handled = "true"
    /\ flocal.op = "X64OP_XOR"
    /\ cell = u64(0)
    /\ bit(eflags, 6) /\ ~bit(eflags, 0) /\ ~bit(eflags, 11)
    /\ Len(writes) = 1

\* C32: whenever the handler reports unhandled, the invocation has modified
\* no byte of emulated memory: no write was made and the memory at the
\* fault address is what it was.
C32_UnhandledLeavesMemory ==
    /\ []((fpc = "done" /\ handled = "false") => writes = <<>>)
    /\ [][handled' = "false" => cell' = cell]_vars

\* ======================================================================
\* Properties of a repeated block operation over its faults
\* ======================================================================

SlotEmptied == interrupt # NULL /\ interrupt' = NULL

ReadsOperand(d) ==
    \/ d.op \in {"X64OP_STORE", "X64OP_STORE_BE"}
          /\ ~(d.op = "X64OP_STORE" /\ d.size = 16)
    \/ d.op \in {"X64OP_XCHG", "X64OP_CMPXCHG", "X64OP_LOAD_CMP",
                 "X64OP_LOAD_TEST"}
    \/ d.op \in AluOps \ {"X64OP_INC", "X64OP_DEC"}
\* the operations whose handler writes the operand with put_x64_reg_value
WritesOperand(d) == d.op \in {"X64OP_LOAD", "X64OP_LOAD_BE", "X64OP_XCHG"}
\* the accessors accept what the decoder returned for the instruction at
\* the position rip
Resolvable(d, rip) ==
    LET c == [regs |-> regs, eflags |-> eflags, rip |-> rip, code |-> code]
    IN /\ ReadsOperand(d)
            => get_x64_reg_value(c, d.reg, d.size, d.length).ok
       /\ WritesOperand(d)
            => put_x64_reg_value(regs, d.reg, d.size, u64(0)).ok

\* C35: for every instruction the decoder accepts, the operand and the
\* size it returns are accepted by the accessor its handler uses:
\* get_x64_reg_value for a source operand, put_x64_reg_value for the
\* destination of a load or an exchange.
C35_DecodedIsResolvable ==
    \A k \in 1..Len(dres) :
        dres[k].op # "X64OP_NONE"
            => Resolvable(dres[k], IF k = 1 THEN 1 ELSE 1 + dres[1].length)

\* ======================================================================
\* Properties of the timed wait
\* ======================================================================
\* C37: wait_wait with a nonzero timeout returns after a single wake-up:
\* true once it has been woken before the time limit of wait_start, false
\* when the limit passes first; after a wake-up it is never blocked again.
C37_SingleWakeup ==
    waitcall.timeout # 0 =>
        /\ (waitcall.state = "returned" /\ waitcall.ret)
              => waitcall.wakeups = 1
        /\ (waitcall.state = "returned" /\ ~waitcall.ret)
              => (waitcall.wakeups = 0 /\ now >= time_limit)
        /\ waitcall.state = "waiting" => waitcall.wakeups = 0

\* ======================================================================
\* Properties of the interrupt delivered by context rewriting
\* ======================================================================
\* the handler h returns and execute_interrupt_handler restores the context
RestoresAfter(h) ==
    /\ cpu.rip = AtHandler(h)
    /\ cpu' # cpu
    /\ cpu'.rip # AtHandleInterrupt

\* C36: when a handler installed by context rewriting returns, the context
\* that is restored has the instruction pointer and the stack pointer the
\* target was interrupted with, and the stack word borrowed for the return
\* address holds again what it held when the target was interrupted.
C36_ContextRestored ==
    [][\A h \in 1..Len(intr) :
         RestoresAfter(h)
            => /\ cpu'.rip = intr[h].rip
               /\ cpu'.rsp = intr[h].rsp
               /\ ~intr[h].leaf
                    => Mem(stack', u64_sub(intr[h].rsp, u64(8)))
                          = intr[h].word]_vars

====
